---- MODULE Spec2Model ----
(***************************************************************************)
(* The conversion queue of the PDF <-> Excel converter (App component):    *)
(* the job collection, the bounded-concurrency scheduler effect, the       *)
(* processJob pipelines, retry / delete / clear, the download step, the    *)
(* page-range parser and the localStorage snapshot with its reload.        *)
(*                                                                         *)
(* React state is modelled as the variables below.  A handler is one       *)
(* action; the effects that run after every render in which `jobs`         *)
(* changed and that are deterministic functions of the new state (the      *)
(* snapshot write, the selection reconciliation) are part of every action  *)
(* (Commit).  The scheduler effect is its own action; React flushes the    *)
(* effects of a render before it handles the next event, so every other    *)
(* action waits until the scheduler has nothing left to start (Idle).      *)
(*                                                                         *)
(* Left out: the fields of a job that no step of the queue reads           *)
(* (fileSize, currentThumbnailIndex); the name of a file is a function of  *)
(* its identity (FileName).  In Spec the search text is empty and the jobs *)
(* fit on one page of the list, so the jobs shown are the jobs of the      *)
(* active mode; the search, the pages and the selection are exercised in   *)
(* SpecList, the table of the viewer in SpecTable, and the admission of    *)
(* the jobs under fairness in SpecAdmission.  The thumbnails, which no     *)
(* step of the queue reads either, are generated in SpecUpdates only, and  *)
(* the output options are edited in SpecPersist only.                      *)
(***************************************************************************)
EXTENDS Integers, Sequences, FiniteSets, Bags, TLC

VARIABLES
    jobs,             \* useState<ProcessJob[]>: the job collection, in order
    activeJobsCount,  \* useState(0): the slots held by dispatched pipelines
    conversionMode,   \* useState<ConversionMode>
    selectedJobIds,   \* useState<Set<string>>: the checked jobs.  The checks made
                      \* before a click on the selection bar are part of that
                      \* action (handleRetrySelected), which empties the selection.
    pipelines,        \* the processJob calls in flight (a bag: position of each)
    thumbnails,       \* the generatePdfThumbnail calls in flight (a bag of job ids)
    saved,            \* localStorage['pdf-to-excel-queue']
    currentlyViewing, \* useState<ProcessJob | null>: the job shown in the viewer
    isEditingData,    \* useState(false): the viewer is in its edit mode
    editedData,       \* useState<SheetData[] | null>: the draft of the viewer
    table,            \* the state of the DataTable of the viewer: activeSheetIndex,
                      \* activeCell and selection
    searchQuery,      \* useState(''): the search text of the list
    currentPage,      \* useState(1): the page of the list that is shown
    call              \* a call of one of the program's functions, examined on
                      \* its own: its arguments and, once made, what it gave

\* The state of the viewer.
viewer == <<currentlyViewing, isEditingData, editedData, table>>

\* The state of the list of jobs.
list == <<searchQuery, currentPage>>

vars == <<jobs, activeJobsCount, conversionMode, selectedJobIds, pipelines,
          thumbnails, saved, viewer, list, call>>

----------------------------------------------------------------------------
(* Program constants *)

MAX_CONCURRENT_JOBS == 3
ITEMS_PER_PAGE == 10

(* Bounds of the model *)

\* Largest page count of a source PDF (pdf.numPages).
MaxPages == 1
\* Largest number of jobs for which the user types a range.
MaxRanged == 1
MaxThumbnails == 2
\* Longest range expression given to parsePageRange on its own, and largest
\* maxPages.
MaxLen == 4
MaxValue == 3
\* Largest number of sheets in a response given to extractDataFromPdfImages
\* on its own.
MaxSheets == 3
MaxEdits == 2
\* Largest number of jobs in the list when its pages, its search and its
\* check boxes are examined on their own.
MaxListed == 21
\* The check boxes of a page that are clicked: those of its first jobs.
MaxToggled == 1
\* The number of files selected at once when the admission of the jobs is
\* examined on its own.
MaxAdmitted == 5

\* File identities `${file.name}-${file.lastModified}-${file.size}`.
FileIds == 1..(MAX_CONCURRENT_JOBS + 1)

ConversionModes == {"pdf-to-excel", "excel-to-pdf"}

\* A field with no value.  The code reads errorMessage, extractedSheets and
\* progressMessage only through truthiness (??, ||, !), so undefined, null
\* and '' are one value here.
Unset == "unset"

\* currentlyViewing: null, or a job.
NotViewing == <<>>
Viewing(job) == <<job>>

\* The selection of the table: null, or a rectangle of cells.
NoSelection == [is |-> "null"]
Rectangle(startRow, startCol, endRow, endCol) ==
    [is |-> "rectangle", start |-> [row |-> startRow, col |-> startCol],
     end |-> [row |-> endRow, col |-> endCol]]

\* The active cell of the table: null, or a cell of a sheet.
NoCell == [is |-> "null"]
ActiveCell(sheetIndex, rowIndex, cellIndex) ==
    [is |-> "cell", sheetIndex |-> sheetIndex, rowIndex |-> rowIndex,
     cellIndex |-> cellIndex]

\* The state of a DataTable that was just mounted (and, here, of one that is
\* not mounted).
InitialTable == [activeSheetIndex |-> 0, activeCell |-> NoCell, selection |-> NoSelection]

\* The search text ''.
NoSearch == <<>>

\* No call is examined.
NoCall == [fn |-> "none"]

----------------------------------------------------------------------------
(* Sequence helpers *)

Range(s) == {s[i] : i \in 1..Len(s)}

Min(a, b) == IF a < b THEN a ELSE b
Max(a, b) == IF a < b THEN b ELSE a

\* Array.prototype.slice(0, n)
Slice0(s, n) == SubSeq(s, 1, IF n < Len(s) THEN n ELSE Len(s))

----------------------------------------------------------------------------
(* parsePageRange.  A range expression is a sequence of one-character      *)
(* strings.  parseInt is applied to pieces that hold no '-' (they come     *)
(* from split('-') or from a part without '-') and, in this alphabet, no   *)
(* '+', so it yields a non-negative integer or NaN.                        *)

Digits == <<"0", "1", "2", "3", "4", "5", "6", "7", "8", "9">>

IsDigit(c) == \E d \in 1..10 : Digits[d] = c

DigitValue(c) == (CHOOSE d \in 1..10 : Digits[d] = c) - 1

IsSpace(c) == c = " "

NaN == -1

isNaN(x) == x = NaN

\* String.prototype.split(sep) for a one-character separator.
RECURSIVE split(_, _)
split(s, sep) ==
    IF \A i \in 1..Len(s) : s[i] # sep THEN <<s>>
    ELSE LET k == CHOOSE i \in 1..Len(s) :
                      s[i] = sep /\ \A j \in 1..(i - 1) : s[j] # sep
         IN <<SubSeq(s, 1, k - 1)>> \o split(SubSeq(s, k + 1, Len(s)), sep)

\* String.prototype.trim()
RECURSIVE trim(_)
trim(s) ==
    IF s = <<>> THEN s
    ELSE IF IsSpace(Head(s)) THEN trim(Tail(s))
    ELSE IF IsSpace(s[Len(s)]) THEN trim(SubSeq(s, 1, Len(s) - 1))
    ELSE s

\* The value of the leading run of digits of s, continuing from acc.
RECURSIVE LeadingDigits(_, _)
LeadingDigits(s, acc) ==
    IF s = <<>> \/ ~IsDigit(Head(s)) THEN acc
    ELSE LeadingDigits(Tail(s), 10 * acc + DigitValue(Head(s)))

\* parseInt(s, 10): the leading digits, NaN when there is none.
parseInt(s) ==
    IF s = <<>> \/ ~IsDigit(Head(s)) THEN NaN ELSE LeadingDigits(s, 0)

\* SortedArray with the comparison the other way round.
RECURSIVE DescendingArray(_)
DescendingArray(S) ==
    IF S = {} THEN <<>>
    ELSE LET m == CHOOSE x \in S : \A y \in S : x >= y
         IN <<m>> \o DescendingArray(S \ {m})

\* The ascending array of a set of numbers: Array.from(pages).sort((a, b) => a - b)
RECURSIVE SortedArray(_)
SortedArray(S) ==
    IF S = {} THEN <<>>
    ELSE LET m == CHOOSE x \in S : \A y \in S : x <= y
         IN <<m>> \o SortedArray(S \ {m})

\* PagesOfPart that reads a range from the smaller to the larger bound.
PagesOfPartEitherWay(part, maxPages) ==
    IF \E i \in 1..Len(part) : part[i] = "-"
    THEN LET pieces == split(part, "-")
             start == parseInt(trim(pieces[1]))
             end == parseInt(trim(pieces[2]))
         IN IF ~isNaN(start) /\ ~isNaN(end)
            THEN {i \in 1..maxPages : (start <= i /\ i <= end) \/ (end <= i /\ i <= start)}
            ELSE {}
    ELSE LET page == parseInt(trim(part))
         IN IF ~isNaN(page) /\ page > 0 /\ page <= maxPages THEN {page} ELSE {}

\* The pages one comma-separated part adds to the set.
PagesOfPart(part, maxPages) ==
    IF \E i \in 1..Len(part) : part[i] = "-"
    THEN LET pieces == split(part, "-")
             start == parseInt(trim(pieces[1]))
             end == parseInt(trim(pieces[2]))
         IN IF ~isNaN(start) /\ ~isNaN(end)
            THEN {i \in start..end : i > 0 /\ i <= maxPages}
            ELSE {}
    ELSE LET page == parseInt(trim(part))
         IN IF ~isNaN(page) /\ page > 0 /\ page <= maxPages THEN {page} ELSE {}

\* parsePageRange that counts an empty expression from 0.
parsePageRangeFromZero(rangeStr, maxPages) ==
    IF trim(rangeStr) = <<>> THEN [i \in 1..maxPages |-> i - 1]
    ELSE LET parts == split(rangeStr, ",")
         IN SortedArray(UNION {PagesOfPart(parts[k], maxPages) : k \in 1..Len(parts)})

parsePageRange(rangeStr, maxPages) ==
    IF trim(rangeStr) = <<>> THEN [i \in 1..maxPages |-> i]
    ELSE LET parts == split(rangeStr, ",")
         IN SortedArray(UNION {PagesOfPart(parts[k], maxPages) : k \in 1..Len(parts)})

----------------------------------------------------------------------------
(* Sheets *)

\* extractedSheets: unset, or an array of sheets.
SheetsUnset == [is |-> Unset, sheets |-> <<>>]
SheetsArray(sheets) == [is |-> "array", sheets |-> sheets]

\* CellStyle {}: no style field set.
EmptyStyle == [f \in {} |-> TRUE]

\* Raw tables as the collaborators return them ({sheetName, data: string[][]}).
RawTable == [sheetName |-> "T1", data |-> <<<<"h">>, <<"1">>>>]
RawHeaderOnly == [sheetName |-> "T2", data |-> <<<<"h">>>>]
RawEmptySheet == [sheetName |-> "T3", data |-> <<>>]
RawNoData == [sheetName |-> "T4"]
RawNoHeader == [sheetName |-> "T5", data |-> <<<<>>, <<"1">>>>]

convertRawSheetsToRich(rawSheets) ==
    [k \in 1..Len(rawSheets) |->
        [sheetName |-> rawSheets[k].sheetName,
         data |-> [r \in 1..Len(rawSheets[k].data) |->
                     [c \in 1..Len(rawSheets[k].data[r]) |->
                        [value |-> rawSheets[k].data[r][c], style |-> EmptyStyle]]]]]

\* The value of a style field that was set to undefined.
Undefined == "undefined"

\* JSON.parse(JSON.stringify(sheets)): the copy holds the names, the values
\* and the style fields that are defined; a field set to undefined (the
\* toolbar does it to color only) is not written.
jsonStyle(style) ==
    [f \in {g \in DOMAIN style : ~(g = "color" /\ style[g] = Undefined)} |-> style[f]]

jsonCopy(sheets) ==
    [k \in 1..Len(sheets) |->
        [sheetName |-> sheets[k].sheetName,
         data |-> [r \in 1..Len(sheets[k].data) |->
                     [c \in 1..Len(sheets[k].data[r]) |->
                        [value |-> sheets[k].data[r][c].value,
                         style |-> jsonStyle(sheets[k].data[r][c].style)]]]]]

----------------------------------------------------------------------------
(* Messages *)

MsgFileNotAvailable == "File not available. Please re-upload to process."
MsgInterrupted == "Processing was interrupted. Please re-upload to retry."
MsgUnexpected == "An unexpected error occurred."
MsgCorrupted == "Failed to convert PDF to images. The file might be corrupted."
MsgSafety == "The response was blocked for safety reasons. The document may contain sensitive content."
MsgEmptyResponse == "The AI returned an empty response. No data could be extracted."
MsgMalformed == "The AI returned a malformed data structure that could not be read."
MsgMissingSheets == "The AI response was missing the expected 'sheets' data structure."
MsgNoTables == "No tables were detected in the document."
MsgOnlyHeaders == "The detected tables appear to be empty or contain only headers."
MsgExcelNoData == "Excel file contains no data."
\* (the text also quotes the range that was typed)
MsgNoSheetsMatch == "No sheets match the specified range. Please check your input."

\* progressMessage values: unset ('' at creation, undefined once cleared) or a text.
ProgressUnset == <<>>
ProgressConverting(i, n) == <<"Converting page", i, "of", n>>
ProgressAnalyzing(n) == <<"AI is analyzing", n, "page(s)...">>
ProgressReading == <<"Reading spreadsheet...">>

----------------------------------------------------------------------------
(* extractDataFromPdfImages: what it makes of the model's response.  A     *)
(* result is [ok |-> TRUE, sheets |-> ..] or [ok |-> FALSE, message |-> ..]*)

Thrown(message) == [ok |-> FALSE, message |-> message]
Returned(sheets) == [ok |-> TRUE, sheets |-> sheets]

\* IsValidSheet that asks for one row only.
IsValidSheetWithRows(sheet) ==
    "data" \in DOMAIN sheet /\ Len(sheet.data) > 0

\* sheet.data && sheet.data.length > 1 && sheet.data[0] && sheet.data[0].length > 0
IsValidSheet(sheet) ==
    "data" \in DOMAIN sheet /\ Len(sheet.data) > 1 /\ Len(sheet.data[1]) > 0

extractDataFromPdfImages(response) ==
    IF response.kind = "SAFETY" THEN Thrown(MsgSafety)
    ELSE IF response.kind = "empty" THEN Thrown(MsgEmptyResponse)
    ELSE IF response.kind = "malformed" THEN Thrown(MsgMalformed)
    ELSE IF response.kind = "no-sheets" THEN Thrown(MsgMissingSheets)
    ELSE IF Len(response.sheets) = 0 THEN Thrown(MsgNoTables)
    ELSE LET validSheets == SelectSeq(response.sheets, IsValidSheet)
         IN IF Len(validSheets) = 0 THEN Thrown(MsgOnlyHeaders)
            ELSE Returned(validSheets)

\* The responses of the extraction model that are enumerated.
ModelResponses ==
    {[kind |-> "json", sheets |-> s] : s \in {<<>>, <<RawHeaderOnly, RawTable>>}}

\* readExcelData: the sheets of the workbook that hold at least one row.
HasRows(sheet) == Len(sheet.data) > 0

readExcelData(workbook) == SelectSeq(workbook, HasRows)

\* The workbooks that are enumerated.
Workbooks == {<<RawEmptySheet>>, <<RawTable, RawEmptySheet, RawHeaderOnly>>}

\* The range texts a user types that are enumerated: all, the third.
RangeTexts == {<<>>, <<"3">>}

----------------------------------------------------------------------------
(* Jobs *)

\* The job handleFileSelect creates for a file.
\* pdfOptions: undefined, or the three options.
PdfOptionsUnset == [f \in {} |-> TRUE]
DEFAULT_PDF_OPTIONS == [orientation |-> "p", fontSize |-> 10, autoWidth |-> TRUE]

\* The options a user saves that are enumerated.
PdfOptionsSaved ==
    {DEFAULT_PDF_OPTIONS, [orientation |-> "l", fontSize |-> 8, autoWidth |-> FALSE]}

\* pdfPageCount: undefined, or a number.
PageCountUnset == <<>>
PageCount(n) == <<n>>

NewJob(fileId, mode) ==
    [id |-> fileId,
     file |-> TRUE,
     status |-> "queued",
     conversionMode |-> mode,
     pageRange |-> <<>>,
     progressMessage |-> ProgressUnset,
     errorMessage |-> Unset,
     extractedSheets |-> SheetsUnset,
     thumbnailUrls |-> Unset,
     pdfPageCount |-> PageCountUnset,
     pdfOptions |-> IF mode = "excel-to-pdf"
                    THEN DEFAULT_PDF_OPTIONS
                    ELSE PdfOptionsUnset]

IsQueued(job) == job.status = "queued"

IsActive(job) == job.status = "queued" \/ job.status = "processing"

\* MapById that adds a job when none has the id.
MapByIdOrAdd(js, jobId, patch) ==
    IF \E i \in 1..Len(js) : js[i].id = jobId
    THEN [i \in 1..Len(js) |-> IF js[i].id = jobId THEN patch @@ js[i] ELSE js[i]]
    ELSE Append(js, patch @@ NewJob(jobId, "pdf-to-excel"))

\* prev.map(j => j.id === jobId ? { ...j, ...patch } : j)
MapById(js, jobId, patch) ==
    [i \in 1..Len(js) |-> IF js[i].id = jobId THEN patch @@ js[i] ELSE js[i]]

\* prev.map(j => ids.includes(j.id) ? { ...j, ...patch } : j)
MapByIds(js, ids, patch) ==
    [i \in 1..Len(js) |-> IF js[i].id \in ids THEN patch @@ js[i] ELSE js[i]]

JobIds(js) == {js[i].id : i \in 1..Len(js)}

\* jobs.find(j => j.id === id)
HasJob(js, id) == \E i \in 1..Len(js) : js[i].id = id

find(js, id) == js[CHOOSE i \in 1..Len(js) :
                      js[i].id = id /\ \A k \in 1..(i - 1) : js[k].id # id]

----------------------------------------------------------------------------
(* The effects that follow every change of `jobs` *)

\* savableJobs that keeps every property.
savableJobsWithFile(js) == js

\* jobs.map(({ file, ...rest }) => rest), written as JSON and parsed again:
\* the values of the other fields (strings, numbers, booleans, arrays and
\* plain objects of these) are written and read back as they are, and a
\* property that is undefined is left out and read as undefined.
savableJobs(js) ==
    [i \in 1..Len(js) |->
        [f \in (DOMAIN js[i]) \ {"file"} |->
            IF f = "extractedSheets" /\ js[i][f].is = "array"
            THEN SheetsArray(jsonCopy(js[i][f].sheets))
            ELSE js[i][f]]]

\* restoreJob without the reset of interrupted jobs.
restoreJobAsSaved(savedJob) == [file |-> FALSE] @@ savedJob

\* The initial value of `jobs`, from the snapshot.
restoreJob(savedJob) ==
    IF savedJob.status = "processing" \/ savedJob.status = "queued"
    THEN [file |-> FALSE, status |-> "error", errorMessage |-> MsgInterrupted] @@ savedJob
    ELSE [file |-> FALSE] @@ savedJob

\* loadSavedJobs that restores the converted jobs only.
loadSavedSucceeded(snapshot) ==
    SelectSeq([i \in 1..Len(snapshot) |-> restoreJob(snapshot[i])],
              LAMBDA job : job.status = "success")

loadSavedJobs(snapshot) == [i \in 1..Len(snapshot) |-> restoreJob(snapshot[i])]

\* reconcileSelection that keeps every id.
keepSelection(selected, js) == selected

\* The reconciliation effect: selected ids with no job are dropped.
reconcileSelection(selected, js) == selected \cap JobIds(js)

Commit(newJobs, newSelected) ==
    /\ jobs' = newJobs
    /\ saved' = savableJobs(newJobs)
    /\ selectedJobIds' = reconcileSelection(newSelected, newJobs)

----------------------------------------------------------------------------
(* processJob *)

\* A pipeline in flight: the id and fields of the job it was called with
\* (jobToProcess, a render-time copy), and where it is suspended.
NewPipeline(job) ==
    [jobId |-> job.id,
     conversionMode |-> job.conversionMode,
     pageRange |-> job.pageRange,
     pc |-> IF job.conversionMode = "pdf-to-excel" THEN "getDocument" ELSE "readExcelData",
     i |-> 0,
     n |-> 0]

\* { progressMessage: message }
WithProgress(message) == [progressMessage |-> message]

\* { status: 'error', errorMessage: message }
\* WithError without the message.
WithErrorNoMessage(message) == [status |-> "error"]

WithError(message) == [status |-> "error", errorMessage |-> message]

\* processJob taking its slot before it looks for the file.
processJobSlotFirst(st, jobToProcess) ==
    IF ~jobToProcess.file
    THEN [st EXCEPT !.jobs = MapById(st.jobs, jobToProcess.id,
                                  WithError(MsgFileNotAvailable)),
                    !.activeJobsCount = st.activeJobsCount + 1]
    ELSE [jobs |-> st.jobs,
          activeJobsCount |-> st.activeJobsCount + 1,
          pipelines |-> st.pipelines (+) SetToBag({NewPipeline(jobToProcess)})]

\* The synchronous part of processJob(jobToProcess), up to its first await,
\* on the pending state st = [jobs, activeJobsCount, pipelines].
processJob(st, jobToProcess) ==
    IF ~jobToProcess.file
    THEN [st EXCEPT !.jobs = MapById(st.jobs, jobToProcess.id,
                                  WithError(MsgFileNotAvailable))]
    ELSE [jobs |-> IF jobToProcess.conversionMode = "pdf-to-excel"
                   THEN st.jobs
                   ELSE MapById(st.jobs, jobToProcess.id,
                                WithProgress(ProgressReading)),
          activeJobsCount |-> st.activeJobsCount + 1,
          pipelines |-> st.pipelines (+) SetToBag({NewPipeline(jobToProcess)})]

\* jobsToStart.forEach(job => processJob(job))
RECURSIVE processJobs(_, _)
processJobs(st, js) ==
    IF js = <<>> THEN st ELSE processJobs(processJob(st, Head(js)), Tail(js))

----------------------------------------------------------------------------
(* The scheduler effect *)

availableSlots == MAX_CONCURRENT_JOBS - activeJobsCount

jobsToStart == Slice0(SelectSeq(jobs, IsQueued), availableSlots)

SchedulerPending == availableSlots > 0 /\ Len(jobsToStart) > 0

\* Every effect of the last render has run.
Idle == ~SchedulerPending

Scheduler ==
    /\ availableSlots > 0
    /\ Len(jobsToStart) > 0
    /\ LET started == MapByIds(jobs, JobIds(jobsToStart),
                               [status |-> "processing"])
           st == processJobs([jobs |-> started,
                              activeJobsCount |-> activeJobsCount,
                              pipelines |-> pipelines], jobsToStart)
       IN /\ Commit(st.jobs, selectedJobIds)
          /\ activeJobsCount' = st.activeJobsCount
          /\ pipelines' = st.pipelines
    /\ UNCHANGED <<conversionMode, thumbnails, viewer, list, call>>

----------------------------------------------------------------------------
(* The asynchronous part of processJob: one action per resumption *)

\* { status: 'success', extractedSheets: sheets, progressMessage: undefined }
WithSuccess(sheets) ==
    [status |-> "success", extractedSheets |-> SheetsArray(sheets),
     progressMessage |-> ProgressUnset]

\* { status: 'error', errorMessage: message, progressMessage: undefined }
WithFailure(message) ==
    [status |-> "error", errorMessage |-> message, progressMessage |-> ProgressUnset]

\* The pipeline p goes on to position q; the jobs become newJobs.
Resume(p, q, newJobs) ==
    /\ Commit(newJobs, selectedJobIds)
    /\ pipelines' = (pipelines (-) SetToBag({p})) (+) SetToBag({q})
    /\ UNCHANGED <<activeJobsCount, conversionMode, thumbnails, viewer, list, call>>

\* Settle without the release of the slot.
SettleHoldingSlot(p, newJobs) ==
    /\ Commit(newJobs, selectedJobIds)
    /\ pipelines' = pipelines (-) SetToBag({p})
    /\ UNCHANGED <<activeJobsCount, conversionMode, thumbnails, viewer, list, call>>

\* The pipeline p settles: try / catch wrote newJobs, finally releases the slot.
Settle(p, newJobs) ==
    /\ Commit(newJobs, selectedJobIds)
    /\ pipelines' = pipelines (-) SetToBag({p})
    /\ activeJobsCount' = activeJobsCount - 1
    /\ UNCHANGED <<conversionMode, thumbnails, viewer, list, call>>

SettleSuccess(p, rawSheets) ==
    Settle(p, MapById(jobs, p.jobId,
                      WithSuccess(convertRawSheetsToRich(rawSheets))))

\* SettleError with a catch that writes nothing.
SettleErrorSwallowed(p, message) == Settle(p, jobs)

SettleError(p, message) ==
    Settle(p, MapById(jobs, p.jobId, WithFailure(message)))

\* The failures of reading and opening the PDF that are enumerated.
PdfLoadFailures == {MsgCorrupted}

\* convertPdfToImages: the file is read and the document opened.  With no page
\* selected it resolves [] at once and processJob goes on to the extraction.
getDocument(p) ==
    /\ p.pc = "getDocument"
    /\ \/ \E message \in PdfLoadFailures : SettleError(p, message)
       \/ \E numPages \in 1..MaxPages :
            LET pagesToConvert == parsePageRange(p.pageRange, numPages)
                n == Len(pagesToConvert)
            IN IF n = 0
               THEN Resume(p, [p EXCEPT !.pc = "extractDataFromPdfImages"],
                           MapById(jobs, p.jobId,
                                   WithProgress(ProgressAnalyzing(0))))
               ELSE Resume(p, [p EXCEPT !.pc = "renderPage", !.i = 1, !.n = n],
                           MapById(jobs, p.jobId,
                                   WithProgress(ProgressConverting(1, n))))

\* convertPdfToImages: page i of n is rendered, or rendering throws.
renderPage(p) ==
    /\ p.pc = "renderPage"
    /\ \/ SettleError(p, MsgCorrupted)
       \/ IF p.i < p.n
          THEN Resume(p, [p EXCEPT !.i = p.i + 1],
                      MapById(jobs, p.jobId,
                              WithProgress(ProgressConverting(p.i + 1, p.n))))
          ELSE Resume(p, [p EXCEPT !.pc = "extractDataFromPdfImages"],
                      MapById(jobs, p.jobId,
                              WithProgress(ProgressAnalyzing(p.n))))

\* await extractDataFromPdfImages(images) returns or throws.
extractionSettles(p) ==
    /\ p.pc = "extractDataFromPdfImages"
    /\ \E response \in ModelResponses :
         LET result == extractDataFromPdfImages(response)
         IN IF result.ok THEN SettleSuccess(p, result.sheets)
            ELSE SettleError(p, result.message)

\* await readExcelData(file) returns or rejects.
readExcelSettles(p) ==
    /\ p.pc = "readExcelData"
    /\ \/ SettleError(p, MsgUnexpected)
       \/ \E workbook \in Workbooks :
            LET rawSheets == readExcelData(workbook)
            IN IF Len(rawSheets) = 0 THEN SettleError(p, MsgExcelNoData)
               ELSE SettleSuccess(p, rawSheets)

PipelineStep ==
    /\ Idle
    /\ \E p \in BagToSet(pipelines) :
         \/ getDocument(p)
         \/ renderPage(p)
         \/ extractionSettles(p)
         \/ readExcelSettles(p)

----------------------------------------------------------------------------
(* User actions.  A guard is the condition under which the control that    *)
(* calls the handler is rendered and enabled.                              *)

\* file.name of the file with the identity id, a sequence of characters: the
\* files with an odd identity are named "Ab", the others "ac".
FileName(id) == IF id % 2 = 1 THEN <<"A", "b">> ELSE <<"a", "c">>

\* String.prototype.toLowerCase over the letters that are used.
toLowerCase(str) ==
    [k \in 1..Len(str) |->
        CASE str[k] = "A" -> "a"
          [] str[k] = "B" -> "b"
          [] str[k] = "C" -> "c"
          [] OTHER -> str[k]]

\* String.prototype.includes: searchString is found at some position of str
\* (the empty string at every position).
includes(str, searchString) ==
    IF searchString = <<>>
    THEN TRUE
    ELSE {k \in 0..(Len(str) - Len(searchString)) :
             SubSeq(str, k + 1, k + Len(searchString)) = searchString} # {}

\* The filter of filteredJobs: the name of the file holds the search text,
\* letter case aside, and the job is of the active mode.
IsVisible(job) ==
    /\ job.conversionMode = conversionMode
    /\ includes(toLowerCase(FileName(job.id)), toLowerCase(searchQuery))

filtered(js) == SelectSeq(js, IsVisible)

filteredJobs == filtered(jobs)

\* Math.ceil(filteredJobs.length / ITEMS_PER_PAGE)
totalPages == (Len(filteredJobs) + ITEMS_PER_PAGE - 1) \div ITEMS_PER_PAGE

\* filteredJobs.slice(startIndex, startIndex + ITEMS_PER_PAGE) on the page
\* `page` of the jobs js.
pageOf(js, page) ==
    SubSeq(filtered(js), (page - 1) * ITEMS_PER_PAGE + 1,
           Min(page * ITEMS_PER_PAGE, Len(filtered(js))))

paginatedJobs == pageOf(jobs, currentPage)

\* settledPage that stays on a page without jobs.
unsettledPage(js, page) == page

\* The effect on [currentPage, paginatedJobs]: while the page is after the
\* first and shows no job, it goes one page back; it runs again after each of
\* its own changes, and before the next event.
RECURSIVE settledPage(_, _)
settledPage(js, page) ==
    IF page > 1 /\ Len(pageOf(js, page)) = 0
    THEN settledPage(js, Max(1, page - 1))
    ELSE page

\* The list after a change of the jobs: the search text stays and the page
\* settles.
listSettles(newJobs) ==
    /\ searchQuery' = searchQuery
    /\ currentPage' = settledPage(newJobs, currentPage)

\* The selections of files that are enumerated.  Identities are only ever
\* compared for equality, so a selection is taken up to renaming.
\* Up to one file more than the ceiling, so that a job has to wait; and three
\* selections that hold the same file twice: side by side, apart, and on
\* either side of the last free slot.
FileSelections ==
    {[k \in 1..n |-> k] : n \in 1..Cardinality(FileIds)}
    \cup {<<1, 1>>, <<1, 2, 1>>, <<1, 2, 3, 3>>}

\* FileUpload is disabled while activeJobsCount > 0.
\* setJobs and setSelectedJobIds of handleFileSelect.
selectFiles(files) ==
    /\ activeJobsCount = 0
    /\ LET newJobs == [k \in 1..Len(files) |-> NewJob(files[k], conversionMode)]
           activeJobs == SelectSeq(jobs, IsActive)
       IN /\ Commit(activeJobs \o newJobs, {})
          /\ listSettles(activeJobs \o newJobs)
    /\ UNCHANGED <<activeJobsCount, conversionMode, pipelines, viewer, call>>

\* handleFileSelect without the thumbnails it asks for, which no step of the
\* queue reads.
handleFileSelect(files) ==
    /\ selectFiles(files)
    /\ UNCHANGED thumbnails

\* What generatePdfThumbnail resolves with: no urls and no pages (the file
\* cannot be read or opened), no urls (no page could be rendered), or urls.
ThumbnailResults ==
    {[urls |-> "null", pageCount |-> 0]}
       \cup {[urls |-> u, pageCount |-> n] : u \in {"null", "array"}, n \in 1..MaxPages}

\* newJobs.forEach(async job => ...): one call of generatePdfThumbnail per new job.
ThumbnailsFor(files) ==
    [id \in Range(files) |-> Cardinality({k \in 1..Len(files) : files[k] = id})]

\* handleFileSelect with the thumbnails.
\* (the bound: at most MaxThumbnails calls of generatePdfThumbnail in flight)
handleFileSelectThumbnails(files) ==
    /\ selectFiles(files)
    /\ thumbnails' = IF conversionMode = "pdf-to-excel"
                     THEN thumbnails (+) ThumbnailsFor(files)
                     ELSE thumbnails
    /\ BagCardinality(thumbnails') <= MaxThumbnails

\* WithThumbnail spread over the new job that the callback holds.
WithThumbnailOfNewJob(result) ==
    [thumbnailUrls |-> result.urls, pdfPageCount |-> PageCount(result.pageCount),
     status |-> "queued", pageRange |-> <<>>, progressMessage |-> ProgressUnset,
     errorMessage |-> Unset, extractedSheets |-> SheetsUnset]

\* { thumbnailUrls: urls, pdfPageCount: pageCount }
WithThumbnail(result) ==
    [thumbnailUrls |-> result.urls, pdfPageCount |-> PageCount(result.pageCount)]

\* A call of generatePdfThumbnail resolves and its result is written by id.
thumbnailSettles(id, result) ==
    /\ BagIn(id, thumbnails)
    /\ Commit(MapById(jobs, id, WithThumbnail(result)), selectedJobIds)
    /\ thumbnails' = thumbnails (-) SetToBag({id})
    /\ UNCHANGED <<activeJobsCount, conversionMode, pipelines, viewer, list, call>>

handleClearAll ==
    /\ Len(jobs) > 0
    /\ Commit(<<>>, {})
    /\ currentlyViewing' = NotViewing
    /\ table' = InitialTable
    /\ searchQuery' = NoSearch
    /\ currentPage' = 1
    /\ UNCHANGED <<activeJobsCount, conversionMode, pipelines, thumbnails,
                   isEditingData, editedData, call>>

switchConversionMode(mode) ==
    /\ mode # conversionMode
    /\ Commit(<<>>, {})
    /\ conversionMode' = mode
    /\ currentlyViewing' = NotViewing
    /\ table' = InitialTable
    /\ searchQuery' = NoSearch
    /\ currentPage' = 1
    /\ UNCHANGED <<activeJobsCount, pipelines, thumbnails,
                   isEditingData, editedData, call>>

hasCompletedJobs == \E i \in 1..Len(jobs) : jobs[i].status \in {"success", "error"}

handleClearCompleted ==
    /\ hasCompletedJobs
    /\ Commit(SelectSeq(jobs, IsActive), {})
    /\ listSettles(SelectSeq(jobs, IsActive))
    /\ UNCHANGED <<activeJobsCount, conversionMode, pipelines, thumbnails, viewer, call>>

\* { status: 'queued', errorMessage: null, extractedSheets: null }
Requeued ==
    [status |-> "queued", errorMessage |-> Unset, extractedSheets |-> SheetsUnset]

\* canRetry with the button offered on every finished job.
canRetryFinished(job) == job.status \in {"error", "success"} /\ job.file

\* The Retry button is rendered for a job in `error`, disabled without its file.
canRetry(job) == job.status = "error" /\ job.file

handleRetry(i) ==
    /\ IsVisible(jobs[i])
    /\ canRetry(jobs[i])
    /\ Commit(MapById(jobs, jobs[i].id, Requeued), selectedJobIds)
    /\ UNCHANGED <<activeJobsCount, conversionMode, pipelines, thumbnails, viewer, list, call>>

\* The selection bar is rendered while something is selected and visible.
\* The user checks visible jobs one by one (handleToggleSelection, which
\* changes nothing but the selection) and then clicks a button of the bar:
\* `selected` is the selection at the click.
SelectionBarShown(selected) ==
    /\ selected # {}
    /\ selected \subseteq JobIds(filteredJobs)

jobsToRetryIds(selected) ==
    {id \in selected :
        HasJob(jobs, id) /\ find(jobs, id).status = "error" /\ find(jobs, id).file}

\* canRetrySelected: some selected job is in `error` and has its file.
canRetrySelected(selected) ==
    \E i \in 1..Len(jobs) :
        jobs[i].id \in selected /\ jobs[i].status = "error" /\ jobs[i].file

handleRetrySelected(selected) ==
    /\ SelectionBarShown(selected)
    /\ canRetrySelected(selected)
    /\ Commit(IF jobsToRetryIds(selected) # {}
              THEN MapByIds(jobs, jobsToRetryIds(selected), Requeued)
              ELSE jobs,
              {})
    /\ UNCHANGED <<activeJobsCount, conversionMode, pipelines, thumbnails, viewer, list, call>>

deleteSelected(selected) ==
    LET kept == SelectSeq(jobs, LAMBDA job : job.id \notin selected)
    IN /\ Commit(kept, {})
       /\ listSettles(kept)
       /\ UNCHANGED <<activeJobsCount, conversionMode, pipelines, thumbnails,
                      viewer, call>>

handleDeleteSelected(selected) ==
    /\ SelectionBarShown(selected)
    /\ deleteSelected(selected)

\* A change of the selection alone, with the effect on [jobs, selectedJobIds].
selectionBecomes(newSelected) ==
    /\ selectedJobIds' = reconcileSelection(newSelected, jobs)
    /\ UNCHANGED <<jobs, activeJobsCount, conversionMode, pipelines, thumbnails,
                   saved, viewer, list, call>>

\* The check box of a job of the page.
handleToggleSelection(jobId) ==
    /\ jobId \in JobIds(paginatedJobs)
    /\ selectionBecomes(IF jobId \in selectedJobIds
                        THEN selectedJobIds \ {jobId}
                        ELSE selectedJobIds \cup {jobId})

\* The selection bar, with its check box and its buttons, is rendered.
selectionBar == Len(filteredJobs) > 0 /\ selectedJobIds # {}

\* The selection that handleToggleSelectAll asks for.
toggledSelectAll ==
    LET paginatedJobIds == JobIds(paginatedJobs)
        selectedOnPage == {id \in selectedJobIds : id \in paginatedJobIds}
    IN IF Cardinality(selectedOnPage) = Len(paginatedJobs) /\ Len(paginatedJobs) > 0
       THEN selectedJobIds \ paginatedJobIds
       ELSE selectedJobIds \cup paginatedJobIds

\* The check box "Select all on page" of the selection bar.
handleToggleSelectAll ==
    /\ selectionBar
    /\ selectionBecomes(toggledSelectAll)

\* The Clear button of the selection bar: setSelectedJobIds(new Set()).
clearSelection ==
    /\ selectionBar
    /\ selectionBecomes({})

\* The search input, with the effects on [searchQuery] and on [currentPage,
\* paginatedJobs] that follow: the first sets the page to 1 after whatever
\* the second asked for.
setSearchQuery(value) ==
    /\ ~(Len(jobs) = 0 /\ searchQuery = NoSearch)
    /\ value # searchQuery
    /\ searchQuery' = value
    /\ currentPage' = 1
    /\ UNCHANGED <<jobs, activeJobsCount, conversionMode, selectedJobIds, pipelines,
                   thumbnails, saved, viewer, call>>

\* The Prev and Next buttons under the list.
setCurrentPage(page) ==
    /\ Len(paginatedJobs) > 0 /\ totalPages > 1
    /\ \/ page = currentPage - 1 /\ currentPage # 1
       \/ page = currentPage + 1 /\ currentPage # totalPages
    /\ currentPage' = settledPage(jobs, page)
    /\ UNCHANGED <<jobs, activeJobsCount, conversionMode, selectedJobIds, pipelines,
                   thumbnails, saved, viewer, searchQuery, call>>

\* The range input of a visible job that is queued, or failed with its file.
\* (the bound: at most MaxRanged job ids carry a range at a time)
RangedIds(js) == {js[k].id : k \in {k \in 1..Len(js) : js[k].pageRange # <<>>}}

handlePageRangeChange(i, range) ==
    /\ IsVisible(jobs[i])
    /\ jobs[i].status = "queued" \/ (jobs[i].status = "error" /\ jobs[i].file)
    /\ LET newJobs == MapById(jobs, jobs[i].id, [pageRange |-> range])
       IN /\ Cardinality(RangedIds(newJobs)) <= MaxRanged
          /\ Commit(newJobs, selectedJobIds)
    /\ UNCHANGED <<activeJobsCount, conversionMode, pipelines, thumbnails, viewer, list, call>>

\* Save in the options dialog of a visible Excel job.
handleSavePdfOptions(i, newOptions) ==
    /\ IsVisible(jobs[i])
    /\ jobs[i].conversionMode = "excel-to-pdf"
    /\ Commit(MapById(jobs, jobs[i].id, [pdfOptions |-> newOptions]), selectedJobIds)
    /\ UNCHANGED <<activeJobsCount, conversionMode, pipelines, thumbnails, viewer, list, call>>

\* downloadPdfFromSheets: the sheets whose 1-based position is selected.
sheetsToProcess(sheets, pageRange) ==
    LET selectedSheetNumbers == parsePageRange(pageRange, Len(sheets))
        picked == {k \in 1..Len(sheets) : k \in Range(selectedSheetNumbers)}
    IN [k \in 1..Cardinality(picked) |->
          sheets[CHOOSE x \in picked : Cardinality({y \in picked : y < x}) = k - 1]]

\* One page of the document per sheet: its name as the title, its first row
\* as the head and the other rows as the body of the table, values only.
pdfPage(sheet) ==
    [text |-> sheet.sheetName,
     head |-> [c \in 1..Len(sheet.data[1]) |-> sheet.data[1][c].value],
     body |-> [r \in 1..(Len(sheet.data) - 1) |->
                 [c \in 1..Len(sheet.data[r + 1]) |-> sheet.data[r + 1][c].value]]]

\* The document of the sheets that are selected, in their order.
pdfDocument(picked) == [k \in 1..Len(picked) |-> pdfPage(picked[k])]

\* A file handed to the browser.
PdfFile(job, doc) == [jobId |-> job.id, type |-> "pdf", doc |-> doc]
XlsxFile(job) == [jobId |-> job.id, type |-> "xlsx", doc |-> <<>>]

\* downloadPdfFromSheets: throws when no sheet is selected, saves the document
\* otherwise.
downloadPdfFromSheets(sheets, pageRange) ==
    IF Len(sheetsToProcess(sheets, pageRange)) = 0
    THEN Thrown(MsgNoSheetsMatch)
    ELSE Returned(pdfDocument(sheetsToProcess(sheets, pageRange)))

\* downloadFails reporting the message and leaving the status.
downloadFailsStatusKept(job, message) ==
    /\ Commit(MapById(jobs, job.id, [errorMessage |-> message]),
              selectedJobIds)
    /\ UNCHANGED <<activeJobsCount, conversionMode, pipelines, thumbnails, viewer, list>>

\* catch of handleDownload
downloadFails(job, message) ==
    /\ Commit(MapById(jobs, job.id, WithError(message)), selectedJobIds)
    /\ UNCHANGED <<activeJobsCount, conversionMode, pipelines, thumbnails, viewer, list>>

\* The files the browser receives from handleDownload(job).  The writers of
\* the output file (XLSX.writeFile, jsPDF) are taken not to throw; the cells
\* of a workbook are not modelled.
filesOfDownload(job) ==
    IF job.conversionMode = "pdf-to-excel"
    THEN <<XlsxFile(job)>>
    ELSE IF downloadPdfFromSheets(job.extractedSheets.sheets, job.pageRange).ok
         THEN <<PdfFile(job, downloadPdfFromSheets(job.extractedSheets.sheets,
                                                   job.pageRange).sheets)>>
         ELSE <<>>

\* The Download button of a visible job in `success`: handleDownload(job) on
\* the state of the component.
download(i) ==
    /\ IsVisible(jobs[i])
    /\ jobs[i].status = "success"
    /\ jobs[i].extractedSheets.is = "array"
    /\ IF jobs[i].conversionMode = "excel-to-pdf"
          /\ ~downloadPdfFromSheets(jobs[i].extractedSheets.sheets, jobs[i].pageRange).ok
       THEN downloadFails(jobs[i],
                downloadPdfFromSheets(jobs[i].extractedSheets.sheets,
                                      jobs[i].pageRange).message)
       ELSE UNCHANGED <<jobs, activeJobsCount, conversionMode, selectedJobIds,
                        pipelines, thumbnails, saved, viewer, list>>

handleDownload(i) ==
    /\ download(i)
    /\ UNCHANGED call

\* handleDownloadSelected: the selected jobs in `success` that hold sheets.
jobsToDownload(selected) ==
    SelectSeq(jobs, LAMBDA j : j.id \in selected /\ j.status = "success"
                                /\ j.extractedSheets.is = "array")

\* The entries of the archive of handleDownloadSelected: the workbooks of the
\* PDF jobs, then the documents of the Excel jobs whose range selects a sheet.
zipOfSelected(selected) ==
    LET excelJobs == SelectSeq(jobsToDownload(selected),
                               LAMBDA j : j.conversionMode = "pdf-to-excel")
        pdfJobs == SelectSeq(jobsToDownload(selected),
                             LAMBDA j : j.conversionMode = "excel-to-pdf")
        withSheets == SelectSeq(pdfJobs,
            LAMBDA j : Len(sheetsToProcess(j.extractedSheets.sheets, j.pageRange)) > 0)
    IN [k \in 1..Len(excelJobs) |-> XlsxFile(excelJobs[k])]
       \o [k \in 1..Len(withSheets) |->
             PdfFile(withSheets[k],
                     pdfDocument(sheetsToProcess(withSheets[k].extractedSheets.sheets,
                                                 withSheets[k].pageRange)))]

----------------------------------------------------------------------------
(* The viewer of a converted job and its draft (editedData).  Row, column  *)
(* and sheet indexes are counted from 0, as the table counts them.         *)

\* sheets[sheetIndex].data[rowIndex][cellIndex] is a cell.
HasCell(sheets, sheetIndex, rowIndex, cellIndex) ==
    /\ sheetIndex \in 0..(Len(sheets) - 1)
    /\ rowIndex \in 0..(Len(sheets[sheetIndex + 1].data) - 1)
    /\ cellIndex \in 0..(Len(sheets[sheetIndex + 1].data[rowIndex + 1]) - 1)

\* The positions that the loops of handleStyleChange visit.
Visited(selection) ==
    (selection.start.row .. selection.end.row)
        \X (selection.start.col .. selection.end.col)

\* cellChanged that puts a new cell, without style, in the place of the cell.
cellReplaced(prevData, sheetIndex, rowIndex, cellIndex, value) ==
    Returned(SheetsArray(
        [jsonCopy(prevData.sheets) EXCEPT
            ![sheetIndex + 1].data[rowIndex + 1][cellIndex + 1] =
                [value |-> value, style |-> EmptyStyle]]))

\* The updater of handleCellChange.
cellChanged(prevData, sheetIndex, rowIndex, cellIndex, value) ==
    IF prevData.is # "array" THEN Returned(SheetsUnset)
    ELSE IF ~HasCell(prevData.sheets, sheetIndex, rowIndex, cellIndex)
    THEN Thrown("TypeError")
    ELSE Returned(SheetsArray(
            [jsonCopy(prevData.sheets) EXCEPT
                ![sheetIndex + 1].data[rowIndex + 1][cellIndex + 1].value = value]))

\* The style of a cell after the patch: { ...currentStyle, ...style }.
styled(cell, style) == [cell EXCEPT !.style = style @@ cell.style]

\* The updater of handleStyleChange (called with a selection): the loops
\* read .style of every position of the rectangle, and throw on a position
\* that holds no cell.
styleChanged(prevData, sheetIndex, selection, style) ==
    IF prevData.is # "array" THEN Returned(SheetsUnset)
    ELSE IF \E rc \in Visited(selection) :
               ~HasCell(prevData.sheets, sheetIndex, rc[1], rc[2])
    THEN Thrown("TypeError")
    ELSE Returned(SheetsArray(
            [jsonCopy(prevData.sheets) EXCEPT
                ![sheetIndex + 1].data =
                    [r \in 1..Len(@) |->
                        [c \in 1..Len(@[r]) |->
                            IF <<r - 1, c - 1>> \in Visited(selection)
                            THEN styled(@[r][c], style)
                            ELSE @[r][c]]]]))

\* The View Data button of a visible PDF job in `success`.
handleViewData(i) ==
    /\ currentlyViewing = NotViewing
    /\ IsVisible(jobs[i])
    /\ jobs[i].status = "success"
    /\ jobs[i].conversionMode = "pdf-to-excel"
    /\ currentlyViewing' = Viewing(jobs[i])
    /\ isEditingData' = FALSE
    /\ editedData' = IF jobs[i].extractedSheets.is = "array"
                     THEN SheetsArray(jsonCopy(jobs[i].extractedSheets.sheets))
                     ELSE SheetsUnset
    /\ table' = InitialTable
    /\ UNCHANGED <<jobs, activeJobsCount, conversionMode, selectedJobIds,
                   pipelines, thumbnails, saved, list, call>>

\* The Edit Data button (value TRUE) and the Cancel button (value FALSE) of
\* the viewer.
setIsEditingData(value) ==
    /\ currentlyViewing # NotViewing
    /\ isEditingData = ~value
    /\ isEditingData' = value
    /\ UNCHANGED <<jobs, activeJobsCount, conversionMode, selectedJobIds,
                   pipelines, thumbnails, saved, currentlyViewing, editedData,
                   table, list, call>>

\* An editing call by the table, counted in `call`; when the updater throws,
\* the component is unmounted and nothing follows until the page is loaded
\* again.
Unmounted == call.fn = "edits" /\ call.threw

\* edited that writes the sheets into the job that is viewed as well.
editedInPlace(result) ==
    /\ editedData' = IF result.ok THEN result.sheets ELSE editedData
    /\ call' = [fn |-> "edits", made |-> call.made + 1, threw |-> ~result.ok]
    /\ Commit(MapById(jobs, currentlyViewing[1].id, [extractedSheets |-> editedData']),
              selectedJobIds)
    /\ UNCHANGED <<activeJobsCount, conversionMode, pipelines, thumbnails,
                   currentlyViewing, isEditingData, table, list>>

edited(result) ==
    /\ editedData' = IF result.ok THEN result.sheets ELSE editedData
    /\ call' = [fn |-> "edits", made |-> call.made + 1, threw |-> ~result.ok]
    /\ UNCHANGED <<jobs, activeJobsCount, conversionMode, selectedJobIds,
                   pipelines, thumbnails, saved, currentlyViewing, isEditingData,
                   table, list>>

\* The table is shown with its inputs: the viewer is open in edit mode on a
\* draft that holds sheets.
Editable ==
    /\ currentlyViewing # NotViewing
    /\ isEditingData
    /\ editedData.is = "array" /\ Len(editedData.sheets) > 0

\* The input of a cell of the table is typed in.
handleCellChange(sheetIndex, rowIndex, cellIndex, value) ==
    /\ Editable
    /\ HasCell(editedData.sheets, sheetIndex, rowIndex, cellIndex)
    /\ edited(cellChanged(editedData, sheetIndex, rowIndex, cellIndex, value))

\* A button of the toolbar is clicked: the table passes its sheet, its
\* selection and the patch of the button.
handleStyleChange(sheetIndex, selection, style) ==
    /\ Editable
    /\ sheetIndex \in 0..(Len(editedData.sheets) - 1)
    /\ IF selection.is = "null"
       THEN UNCHANGED vars
       ELSE edited(styleChanged(editedData, sheetIndex, selection, style))

\* The Save Changes button of the viewer in edit mode.
handleSaveChanges ==
    /\ currentlyViewing # NotViewing
    /\ isEditingData
    /\ IF editedData.is # "array"
       THEN UNCHANGED vars
       ELSE /\ Commit(MapById(jobs, currentlyViewing[1].id,
                              [extractedSheets |-> editedData]),
                      selectedJobIds)
            /\ isEditingData' = FALSE
            /\ UNCHANGED <<activeJobsCount, conversionMode, pipelines, thumbnails,
                           currentlyViewing, editedData, table, list, call>>

closeViewer ==
    /\ currentlyViewing # NotViewing
    /\ currentlyViewing' = NotViewing
    /\ editedData' = SheetsUnset
    /\ isEditingData' = FALSE
    /\ table' = InitialTable
    /\ UNCHANGED <<jobs, activeJobsCount, conversionMode, selectedJobIds,
                   pipelines, thumbnails, saved, list, call>>

----------------------------------------------------------------------------
(* The DataTable of the viewer: its sheet tabs, its cells and its toolbar. *)

\* The sheet that the table shows, its row count and the length of its
\* header row (activeSheet, totalRows, totalCols).
activeSheet == editedData.sheets[table.activeSheetIndex + 1]
totalRows == Len(activeSheet.data)
totalCols == IF Len(activeSheet.data) > 0 THEN Len(activeSheet.data[1]) ELSE 0

\* The table is rendered: the viewer is open on a draft that holds sheets.
TableShown ==
    /\ currentlyViewing # NotViewing
    /\ editedData.is = "array" /\ Len(editedData.sheets) > 0

\* The table renders the cell (rowIndex, cellIndex) of the active sheet.
Rendered(rowIndex, cellIndex) ==
    HasCell(editedData.sheets, table.activeSheetIndex, rowIndex, cellIndex)

\* The input of the active cell is rendered: the table is editable and the
\* active cell is a cell of the sheet; the toolbar is shown beside it.
InputShown ==
    /\ TableShown
    /\ isEditingData
    /\ table.activeCell.is = "cell"
    /\ table.activeCell.sheetIndex = table.activeSheetIndex
    /\ Rendered(table.activeCell.rowIndex, table.activeCell.cellIndex)

tableBecomes(newTable) ==
    /\ table' = newTable
    /\ UNCHANGED <<jobs, activeJobsCount, conversionMode, selectedJobIds, pipelines,
                   thumbnails, saved, currentlyViewing, isEditingData, editedData,
                   list, call>>

\* setActiveSheetIndex without the effect that resets the anchor and the
\* selection.
setActiveSheetIndexOnly(index) ==
    /\ TableShown
    /\ index \in 0..(Len(editedData.sheets) - 1)
    /\ tableBecomes([table EXCEPT !.activeSheetIndex = index])

\* A click on the tab of a sheet, with the effect that follows a change of
\* activeSheetIndex.
setActiveSheetIndex(index) ==
    /\ TableShown
    /\ index \in 0..(Len(editedData.sheets) - 1)
    /\ tableBecomes(IF index = table.activeSheetIndex
                    THEN table
                    ELSE [activeSheetIndex |-> index, activeCell |-> NoCell,
                          selection |-> NoSelection])

\* cellClicked that takes the anchor as the start and the cell as the end.
cellClickedInOrder(shiftKey, rowIndex, cellIndex) ==
    IF shiftKey /\ table.activeCell.is = "cell"
    THEN [table EXCEPT !.selection =
            Rectangle(table.activeCell.rowIndex, table.activeCell.cellIndex,
                      rowIndex, cellIndex)]
    ELSE [table EXCEPT
            !.activeCell = ActiveCell(table.activeSheetIndex, rowIndex, cellIndex),
            !.selection = Rectangle(rowIndex, cellIndex, rowIndex, cellIndex)]

\* The anchor and the selection after a click on a cell.
cellClicked(shiftKey, rowIndex, cellIndex) ==
    IF shiftKey /\ table.activeCell.is = "cell"
    THEN [table EXCEPT !.selection =
            Rectangle(Min(table.activeCell.rowIndex, rowIndex),
                      Min(table.activeCell.cellIndex, cellIndex),
                      Max(table.activeCell.rowIndex, rowIndex),
                      Max(table.activeCell.cellIndex, cellIndex))]
    ELSE [table EXCEPT
            !.activeCell = ActiveCell(table.activeSheetIndex, rowIndex, cellIndex),
            !.selection = Rectangle(rowIndex, cellIndex, rowIndex, cellIndex)]

\* A click, with or without the shift key, on a cell of the editable table.
handleCellClick(shiftKey, rowIndex, cellIndex) ==
    /\ TableShown
    /\ isEditingData
    /\ Rendered(rowIndex, cellIndex)
    /\ tableBecomes(cellClicked(shiftKey, rowIndex, cellIndex))

Keys == {"ArrowUp", "ArrowDown", "ArrowLeft", "ArrowRight", "Tab", "Enter"}

\* nextPosition whose arrows do not stop at the edges of the grid.
nextPositionUnclamped(key, shiftKey, rowIndex, cellIndex) ==
    IF key = "ArrowUp" THEN <<Max(0, rowIndex - 1), cellIndex>>
    ELSE IF key = "ArrowDown" THEN <<rowIndex + 1, cellIndex>>
    ELSE IF key = "ArrowLeft" THEN <<rowIndex, Max(0, cellIndex - 1)>>
    ELSE IF key = "ArrowRight" THEN <<rowIndex, cellIndex + 1>>
    ELSE IF key = "Tab" /\ shiftKey
    THEN IF cellIndex > 0 THEN <<rowIndex, cellIndex - 1>>
         ELSE IF rowIndex > 0 THEN <<rowIndex - 1, totalCols - 1>>
         ELSE <<rowIndex, cellIndex>>
    ELSE IF key = "Tab"
    THEN IF cellIndex < totalCols - 1 THEN <<rowIndex, cellIndex + 1>>
         ELSE IF rowIndex < totalRows - 1 THEN <<rowIndex + 1, 0>>
         ELSE <<rowIndex, cellIndex>>
    ELSE <<rowIndex, cellIndex>>

\* The position that a key leads to from (rowIndex, cellIndex).
nextPosition(key, shiftKey, rowIndex, cellIndex) ==
    IF key = "ArrowUp" THEN <<Max(0, rowIndex - 1), cellIndex>>
    ELSE IF key = "ArrowDown" THEN <<Min(totalRows - 1, rowIndex + 1), cellIndex>>
    ELSE IF key = "ArrowLeft" THEN <<rowIndex, Max(0, cellIndex - 1)>>
    ELSE IF key = "ArrowRight" THEN <<rowIndex, Min(totalCols - 1, cellIndex + 1)>>
    ELSE IF key = "Tab" /\ shiftKey
    THEN IF cellIndex > 0 THEN <<rowIndex, cellIndex - 1>>
         ELSE IF rowIndex > 0 THEN <<rowIndex - 1, totalCols - 1>>
         ELSE <<rowIndex, cellIndex>>
    ELSE IF key = "Tab"
    THEN IF cellIndex < totalCols - 1 THEN <<rowIndex, cellIndex + 1>>
         ELSE IF rowIndex < totalRows - 1 THEN <<rowIndex + 1, 0>>
         ELSE <<rowIndex, cellIndex>>
    ELSE <<rowIndex, cellIndex>>

\* A key is pressed in the input of the active cell.
handleKeyDown(key, shiftKey) ==
    /\ InputShown
    /\ LET rowIndex == table.activeCell.rowIndex
           cellIndex == table.activeCell.cellIndex
           next == nextPosition(key, shiftKey, rowIndex, cellIndex)
       IN tableBecomes(IF next # <<rowIndex, cellIndex>>
                       THEN [table EXCEPT
                               !.activeCell = ActiveCell(table.activeSheetIndex,
                                                         next[1], next[2]),
                               !.selection = Rectangle(next[1], next[2],
                                                       next[1], next[2])]
                       ELSE table)

\* The input of the active cell is typed in.
onCellChange(value) ==
    /\ InputShown
    /\ handleCellChange(table.activeSheetIndex, table.activeCell.rowIndex,
                        table.activeCell.cellIndex, value)

\* A button of the toolbar is clicked.
onStyleChange(style) ==
    /\ InputShown
    /\ handleStyleChange(table.activeSheetIndex, table.selection, style)

\* The page is reloaded: every piece of state starts again, `jobs` from the
\* snapshot; the work in flight is gone with the page.
Reload ==
    /\ Commit(loadSavedJobs(saved), {})
    /\ activeJobsCount' = 0
    /\ conversionMode' = "pdf-to-excel"
    /\ pipelines' = EmptyBag
    /\ thumbnails' = EmptyBag
    /\ currentlyViewing' = NotViewing
    /\ isEditingData' = FALSE
    /\ editedData' = SheetsUnset
    /\ table' = InitialTable
    /\ searchQuery' = NoSearch
    /\ currentPage' = 1
    /\ UNCHANGED call

----------------------------------------------------------------------------

\* The state of the component after construction, with an empty storage.
InitApp ==
    /\ jobs = <<>>
    /\ activeJobsCount = 0
    /\ conversionMode = "pdf-to-excel"
    /\ selectedJobIds = {}
    /\ pipelines = EmptyBag
    /\ thumbnails = EmptyBag
    /\ saved = <<>>
    /\ currentlyViewing = NotViewing
    /\ isEditingData = FALSE
    /\ editedData = SheetsUnset
    /\ table = InitialTable
    /\ searchQuery = NoSearch
    /\ currentPage = 1

Init ==
    /\ InitApp
    /\ call = NoCall

\* The scheduler effect runs before anything else that is due; every other
\* step waits for it (Idle).
Next ==
    \/ Scheduler
    \/ PipelineStep
    \/ Idle /\ \E files \in FileSelections : handleFileSelect(files)
    \/ Idle /\ handleClearAll
    \/ Idle /\ \E mode \in ConversionModes : switchConversionMode(mode)
    \/ Idle /\ handleClearCompleted
    \/ Idle /\ \E i \in 1..Len(jobs) : handleRetry(i)
    \/ Idle /\ \E selected \in SUBSET JobIds(jobs) : handleRetrySelected(selected)
    \/ Idle /\ \E selected \in SUBSET JobIds(jobs) : handleDeleteSelected(selected)
    \/ Idle /\ \E i \in 1..Len(jobs), range \in RangeTexts : handlePageRangeChange(i, range)
    \/ Idle /\ \E i \in 1..Len(jobs) : handleDownload(i)
    \/ Idle /\ Reload

Spec == Init /\ [][Next]_vars

----------------------------------------------------------------------------
(* processJob called directly.  The scheduler dispatches only queued jobs, *)
(* and a queued job always holds its file; the branch of processJob for a  *)
(* job without file is exercised by calling processJob with a job restored *)
(* from the snapshot.                                                      *)

processJobCalled(i) ==
    /\ ~jobs[i].file
    /\ LET st == processJob([jobs |-> jobs,
                             activeJobsCount |-> activeJobsCount,
                             pipelines |-> pipelines], jobs[i])
       IN /\ Commit(st.jobs, selectedJobIds)
          /\ activeJobsCount' = st.activeJobsCount
          /\ pipelines' = st.pipelines
    /\ UNCHANGED <<conversionMode, thumbnails, viewer, list, call>>

NextDispatch ==
    \/ Scheduler
    \/ PipelineStep
    \/ Idle /\ \E files \in FileSelections : handleFileSelect(files)
    \/ Idle /\ \E mode \in ConversionModes : switchConversionMode(mode)
    \/ Idle /\ Reload
    \/ Idle /\ \E i \in 1..Len(jobs) : processJobCalled(i)

SpecDispatch == Init /\ [][NextDispatch]_vars

----------------------------------------------------------------------------
(* parsePageRange on its own: every expression of at most MaxLen           *)
(* characters over RangeAlphabet, every maxPages up to MaxValue.           *)

RangeAlphabet == {"0", "1", "2", "3", "-", ",", " ", "x"}

RangeExpressions == UNION {[1..n -> RangeAlphabet] : n \in 0..MaxLen}

InitParse ==
    /\ InitApp
    /\ call \in {[fn |-> "parsePageRange", rangeStr |-> r, maxPages |-> m,
                   made |-> FALSE, pages |-> <<>>] :
                     r \in RangeExpressions, m \in 0..MaxValue}

parsePageRangeCalled ==
    /\ call.fn = "parsePageRange"
    /\ ~call.made
    /\ call' = [call EXCEPT !.made = TRUE,
                            !.pages = parsePageRange(call.rangeStr, call.maxPages)]
    /\ UNCHANGED <<jobs, activeJobsCount, conversionMode, selectedJobIds,
                   pipelines, thumbnails, saved, viewer, list>>

NextParse == parsePageRangeCalled

SpecParse == InitParse /\ [][NextParse]_vars

----------------------------------------------------------------------------
(* extractDataFromPdfImages on its own, in the pipeline of one job: the    *)
(* job is being processed, its pages are rendered, and the model answers   *)
(* with call.response.                                                     *)

SheetKinds == {RawTable, RawHeaderOnly, RawEmptySheet, RawNoData, RawNoHeader}

ExtractResponses ==
    {[kind |-> k] : k \in {"SAFETY", "empty", "malformed", "no-sheets"}}
       \cup {[kind |-> "json", sheets |-> s] :
                s \in UNION {[1..n -> SheetKinds] : n \in 0..MaxSheets}}

InitExtract ==
    LET job == NewJob(1, "pdf-to-excel")
        processing == [job EXCEPT !.status = "processing",
                                  !.progressMessage = ProgressAnalyzing(1)]
    IN /\ jobs = <<processing>>
       /\ activeJobsCount = 1
       /\ conversionMode = "pdf-to-excel"
       /\ selectedJobIds = {}
       /\ pipelines = SetToBag({[NewPipeline(job) EXCEPT
                                   !.pc = "extractDataFromPdfImages",
                                   !.i = 1, !.n = 1]})
       /\ thumbnails = EmptyBag
       /\ saved = savableJobs(jobs)
       /\ currentlyViewing = NotViewing
       /\ isEditingData = FALSE
       /\ editedData = SheetsUnset
       /\ table = InitialTable
       /\ searchQuery = NoSearch
       /\ currentPage = 1
       /\ call \in {[fn |-> "extractDataFromPdfImages", response |-> r] :
                       r \in ExtractResponses}

\* await extractDataFromPdfImages(images) returns or throws, the model
\* having answered with call.response.
extractionAnswers ==
    /\ call.fn = "extractDataFromPdfImages"
    /\ \E p \in BagToSet(pipelines) :
         /\ p.pc = "extractDataFromPdfImages"
         /\ LET result == extractDataFromPdfImages(call.response)
            IN IF result.ok THEN SettleSuccess(p, result.sheets)
               ELSE SettleError(p, result.message)

NextExtract == extractionAnswers

SpecExtract == InitExtract /\ [][NextExtract]_vars

----------------------------------------------------------------------------
(* The downloads of Excel jobs.  The component holds one or two Excel jobs *)
(* that were converted, each with the sheets of its workbook and the range *)
(* typed before it was started; `call` holds the files the browser received*)
(* from the last click.                                                    *)

RawWide == [sheetName |-> "T6", data |-> <<<<"a", "b">>, <<"1", "2">>>>]

\* The sheets of the converted workbooks that are enumerated.
SheetLists ==
    {convertRawSheetsToRich(readExcelData(w)) :
        w \in {<<RawTable, RawEmptySheet>>, <<RawTable, RawHeaderOnly, RawWide>>}}

\* The ranges that are enumerated: all, the second, the fifth, the first two,
\* the third and the first.
SheetRanges == {<<>>, <<"2">>, <<"5">>, <<"1", "-", "2">>, <<"3", ",", "1">>}

ConvertedJob(fileId, sheets, range) ==
    [status |-> "success", extractedSheets |-> SheetsArray(sheets),
     pageRange |-> range, progressMessage |-> ProgressUnset]
        @@ NewJob(fileId, "excel-to-pdf")

ConvertedJobs ==
    {ConvertedJob(1, sheets, range) : sheets \in SheetLists, range \in SheetRanges}

InitDownload ==
    /\ jobs \in {<<j>> : j \in ConvertedJobs}
              \cup {<<j, ConvertedJob(2, sheets, range)>> :
                       j \in ConvertedJobs, sheets \in SheetLists, range \in SheetRanges}
    /\ activeJobsCount = 0
    /\ conversionMode = "excel-to-pdf"
    /\ selectedJobIds = {}
    /\ pipelines = EmptyBag
    /\ thumbnails = EmptyBag
    /\ saved = savableJobs(jobs)
    /\ currentlyViewing = NotViewing
    /\ isEditingData = FALSE
    /\ editedData = SheetsUnset
    /\ table = InitialTable
    /\ searchQuery = NoSearch
    /\ currentPage = 1
    /\ call = NoCall

\* handleDownload with the files it hands to the browser.
handleDownloadFiles(i) ==
    /\ download(i)
    /\ call' = [fn |-> "handleDownload", files |-> filesOfDownload(jobs[i])]

\* canDownloadSelected: some selected job is in `success`.
canDownloadSelected(selected) ==
    \E i \in 1..Len(jobs) : jobs[i].id \in selected /\ jobs[i].status = "success"

\* The Download Selected button of the bar, with the archive it hands to the
\* browser (none when no selected job holds sheets).
handleDownloadSelected(selected) ==
    /\ SelectionBarShown(selected)
    /\ canDownloadSelected(selected)
    /\ Commit(jobs, {})
    /\ call' = [fn |-> "handleDownloadSelected",
                files |-> zipOfSelected(selected)]
    /\ UNCHANGED <<activeJobsCount, conversionMode, pipelines, thumbnails, viewer, list>>

NextDownload ==
    \/ \E i \in 1..Len(jobs) : handleDownloadFiles(i)
    \/ \E selected \in SUBSET JobIds(jobs) : handleDownloadSelected(selected)

SpecDownload == InitDownload /\ [][NextDownload]_vars

----------------------------------------------------------------------------
(* The viewer.  The component holds one or two PDF jobs that were          *)
(* converted; `call` counts the editing calls of the table, at most        *)
(* MaxEdits of them in a behaviour.                                        *)

Cell(value, style) == [value |-> value, style |-> style]

\* A table of two columns with one cell in color, and a table whose data row
\* is shorter than its header row.
GridSheet ==
    [sheetName |-> "T7",
     data |-> <<<<Cell("a", EmptyStyle), Cell("b", EmptyStyle)>>,
                <<Cell("1", [color |-> "#EF4444"]), Cell("2", EmptyStyle)>>>>]
RaggedSheet ==
    [sheetName |-> "T8",
     data |-> <<<<Cell("a", EmptyStyle), Cell("b", EmptyStyle)>>,
                <<Cell("1", EmptyStyle)>>>>]

EditorSheetLists == {<<GridSheet>>, <<RaggedSheet, GridSheet>>}

ExtractedJob(fileId, sheets) ==
    [status |-> "success", extractedSheets |-> SheetsArray(sheets),
     progressMessage |-> ProgressUnset]
        @@ NewJob(fileId, "pdf-to-excel")

\* The values typed and the patches of the toolbar that are enumerated.
TypedValues == {"x"}
StylePatches == {[bold |-> TRUE], [color |-> Undefined]}

\* The selections the table builds on a sheet: none, or the rectangle between
\* the cell clicked first and the cell clicked last (handleCellClick).
Selections(sheets, sheetIndex) ==
    {NoSelection} \cup
    {Rectangle(IF a[1] < b[1] THEN a[1] ELSE b[1], IF a[2] < b[2] THEN a[2] ELSE b[2],
               IF a[1] < b[1] THEN b[1] ELSE a[1], IF a[2] < b[2] THEN b[2] ELSE a[2]) :
        a \in {rc \in (0..1) \X (0..1) : HasCell(sheets, sheetIndex, rc[1], rc[2])},
        b \in {rc \in (0..1) \X (0..1) : HasCell(sheets, sheetIndex, rc[1], rc[2])}}

InitEditor ==
    /\ jobs \in {<<ExtractedJob(1, sheets)>> : sheets \in EditorSheetLists}
              \cup {<<ExtractedJob(1, sheets), ExtractedJob(2, <<GridSheet>>)>> :
                       sheets \in EditorSheetLists}
    /\ activeJobsCount = 0
    /\ conversionMode = "pdf-to-excel"
    /\ selectedJobIds = {}
    /\ pipelines = EmptyBag
    /\ thumbnails = EmptyBag
    /\ saved = savableJobs(jobs)
    /\ currentlyViewing = NotViewing
    /\ isEditingData = FALSE
    /\ editedData = SheetsUnset
    /\ table = InitialTable
    /\ searchQuery = NoSearch
    /\ currentPage = 1
    /\ call = [fn |-> "edits", made |-> 0, threw |-> FALSE]

NextEditor ==
    \/ ~Unmounted /\ \E i \in 1..Len(jobs) : handleViewData(i)
    \/ ~Unmounted /\ \E value \in BOOLEAN : setIsEditingData(value)
    \/ /\ ~Unmounted
       /\ call.made < MaxEdits
       /\ \E sheetIndex \in 0..1, rowIndex \in 0..1, cellIndex \in 0..1, value \in TypedValues :
             handleCellChange(sheetIndex, rowIndex, cellIndex, value)
    \/ /\ ~Unmounted
       /\ call.made < MaxEdits
       /\ \E sheetIndex \in 0..1 :
             /\ Editable
             /\ sheetIndex < Len(editedData.sheets)
             /\ \E selection \in Selections(editedData.sheets, sheetIndex),
                   style \in StylePatches :
                   handleStyleChange(sheetIndex, selection, style)
    \/ ~Unmounted /\ handleSaveChanges
    \/ ~Unmounted /\ closeViewer

SpecEditor == InitEditor /\ [][NextEditor]_vars

----------------------------------------------------------------------------
(* The viewer with its table: the cells are clicked, the keys pressed, the *)
(* tabs changed and the toolbar used as the table allows it.               *)

NextTable ==
    \/ ~Unmounted /\ \E i \in 1..Len(jobs) : handleViewData(i)
    \/ ~Unmounted /\ \E value \in BOOLEAN : setIsEditingData(value)
    \/ ~Unmounted /\ closeViewer
    \/ ~Unmounted /\ \E index \in 0..1 : setActiveSheetIndex(index)
    \/ ~Unmounted /\ \E shiftKey \in BOOLEAN, rowIndex \in 0..1, cellIndex \in 0..1 :
                        handleCellClick(shiftKey, rowIndex, cellIndex)
    \/ ~Unmounted /\ \E key \in Keys, shiftKey \in BOOLEAN : handleKeyDown(key, shiftKey)
    \/ ~Unmounted /\ call.made < MaxEdits /\ \E value \in TypedValues : onCellChange(value)
    \/ ~Unmounted /\ call.made < MaxEdits /\ \E style \in StylePatches : onStyleChange(style)

SpecTable == InitEditor /\ [][NextTable]_vars

----------------------------------------------------------------------------
(* The list on its own: its search, its pages and its check boxes, over    *)
(* lists of jobs loaded from the snapshot that fill two and three pages,   *)
(* and one in which a file was selected twice.  Jobs are deleted from the  *)
(* longest list.                                                           *)

ListedJob(fileId) == restoreJob(NewJob(fileId, "pdf-to-excel"))

ListedJobs ==
    {[k \in 1..n |-> ListedJob(k)] : n \in {ITEMS_PER_PAGE + 1, MaxListed}}
       \cup {<<ListedJob(1)>> \o [k \in 1..ITEMS_PER_PAGE |-> ListedJob(k)]}

\* The texts typed into the search input: one that every name holds, one
\* that the names of the odd files hold, and one that no name holds.
SearchTexts == {<<>>, <<"a">>, <<"B">>, <<"z">>}

InitList ==
    /\ jobs \in ListedJobs
    /\ activeJobsCount = 0
    /\ conversionMode = "pdf-to-excel"
    /\ selectedJobIds = {}
    /\ pipelines = EmptyBag
    /\ thumbnails = EmptyBag
    /\ saved = savableJobs(jobs)
    /\ currentlyViewing = NotViewing
    /\ isEditingData = FALSE
    /\ editedData = SheetsUnset
    /\ table = InitialTable
    /\ searchQuery = NoSearch
    /\ currentPage = 1
    /\ call = NoCall

NextList ==
    \/ \E k \in 1..Min(MaxToggled, Len(paginatedJobs)) :
          handleToggleSelection(paginatedJobs[k].id)
    \/ handleToggleSelectAll
    \/ clearSelection
    \/ \E value \in SearchTexts : setSearchQuery(value)
    \/ \E page \in 1..totalPages : setCurrentPage(page)
    \/ /\ selectionBar
       /\ Len(jobs) = MaxListed
       /\ deleteSelected(selectedJobIds)
    \/ handleClearCompleted
    \/ handleClearAll

SpecList == InitList /\ [][NextList]_vars

----------------------------------------------------------------------------
(* The admission of the jobs under fairness: MaxAdmitted spreadsheets were *)
(* selected at once; the pipelines settle either way and the user retries  *)
(* the jobs that failed and clears the finished ones.  The scheduler       *)
(* effect runs after every render in which `jobs` or `activeJobsCount`     *)
(* changed (weak fairness), and every promise that a pipeline awaits       *)
(* settles, whatever the scheduler does in between (strong fairness: a     *)
(* step of a pipeline waits for the effect that is due).                   *)

InitAdmission ==
    /\ jobs = [k \in 1..MaxAdmitted |-> NewJob(k, "excel-to-pdf")]
    /\ activeJobsCount = 0
    /\ conversionMode = "excel-to-pdf"
    /\ selectedJobIds = {}
    /\ pipelines = EmptyBag
    /\ thumbnails = EmptyBag
    /\ saved = savableJobs(jobs)
    /\ currentlyViewing = NotViewing
    /\ isEditingData = FALSE
    /\ editedData = SheetsUnset
    /\ table = InitialTable
    /\ searchQuery = NoSearch
    /\ currentPage = 1
    /\ call = NoCall

\* A step of a pipeline of the job with the id jobId.
PipelineStepOf(jobId) ==
    /\ Idle
    /\ \E p \in BagToSet(pipelines) :
         /\ p.jobId = jobId
         /\ \/ getDocument(p)
            \/ renderPage(p)
            \/ extractionSettles(p)
            \/ readExcelSettles(p)

NextAdmission ==
    \/ Scheduler
    \/ PipelineStep
    \/ Idle /\ \E i \in 1..Len(jobs) : handleRetry(i)
    \/ Idle /\ handleClearCompleted

SpecAdmission ==
    /\ InitAdmission
    /\ [][NextAdmission]_vars
    /\ WF_vars(Scheduler)
    /\ \A jobId \in 1..MaxAdmitted : SF_vars(PipelineStepOf(jobId))

----------------------------------------------------------------------------
(* The updates of the collection that are written by id: the queue with    *)
(* the thumbnails, for selections of one or two files.                     *)

UpdateSelections == {<<1>>, <<2>>, <<1, 2>>, <<1, 1>>}

NextUpdates ==
    \/ Scheduler
    \/ PipelineStep
    \/ Idle /\ \E files \in UpdateSelections : handleFileSelectThumbnails(files)
    \/ Idle /\ \E id \in BagToSet(thumbnails), result \in ThumbnailResults :
                  thumbnailSettles(id, result)
    \/ Idle /\ \E mode \in ConversionModes : switchConversionMode(mode)
    \/ Idle /\ \E i \in 1..Len(jobs) : handleRetry(i)
    \/ Idle /\ \E selected \in SUBSET JobIds(jobs) : handleDeleteSelected(selected)
    \/ Idle /\ \E i \in 1..Len(jobs), range \in RangeTexts : handlePageRangeChange(i, range)
    \/ Idle /\ \E i \in 1..Len(jobs) : handleDownload(i)

SpecUpdates == Init /\ [][NextUpdates]_vars

----------------------------------------------------------------------------
(* The snapshot and the reload, with the output options, for selections of *)
(* one or two files.                                                       *)

NextPersist ==
    \/ Scheduler
    \/ PipelineStep
    \/ Idle /\ \E files \in UpdateSelections : handleFileSelect(files)
    \/ Idle /\ \E mode \in ConversionModes : switchConversionMode(mode)
    \/ Idle /\ \E i \in 1..Len(jobs) : handleRetry(i)
    \/ Idle /\ \E i \in 1..Len(jobs), range \in RangeTexts : handlePageRangeChange(i, range)
    \/ Idle /\ \E i \in 1..Len(jobs), newOptions \in PdfOptionsSaved :
                  handleSavePdfOptions(i, newOptions)
    \/ Idle /\ \E i \in 1..Len(jobs) : handleDownload(i)
    \/ Idle /\ Reload

SpecPersist == Init /\ [][NextPersist]_vars

----------------------------------------------------------------------------
(* Properties *)

Positions == 1..Len(jobs)


ProcessingCount == Cardinality({i \in Positions : jobs[i].status = "processing"})

QueuedCount == Cardinality({i \in Positions : jobs[i].status = "queued"})

PipelinesFor(id) ==
    LET S == {p \in BagToSet(pipelines) : p.jobId = id}
    IN BagCardinality([p \in S |-> CopiesIn(p, pipelines)])

JobsWith(id) == Cardinality({i \in Positions : jobs[i].id = id})

\* A step of an operation that updates jobs in place (none is added or removed).
UpdateStep ==
    \/ Scheduler
    \/ PipelineStep
    \/ \E i \in Positions : handleRetry(i)
    \/ \E selected \in SUBSET JobIds(jobs) : handleRetrySelected(selected)
    \/ \E i \in Positions, range \in RangeTexts : handlePageRangeChange(i, range)
    \/ \E i \in Positions : handleDownload(i)

\* The download of job fails: its range selects none of its sheets.
DownloadFailsFor(job) ==
    /\ job.conversionMode = "excel-to-pdf"
    /\ Len(sheetsToProcess(job.extractedSheets.sheets, job.pageRange)) = 0

\* C1: in every reachable state at most MAX_CONCURRENT_JOBS jobs of the
\* collection have status `processing`.
C1_ProcessingWithinCeiling == ProcessingCount <= MAX_CONCURRENT_JOBS

\* C2: activeJobsCount is never negative and equals the number of pipelines in
\* flight (so it is 0 when none is): each dispatch adds one to both, each
\* settling, success or failure, takes one from both.
C2_CounterIsPipelines ==
    /\ activeJobsCount >= 0
    /\ activeJobsCount = BagCardinality(pipelines)

\* Pipelines have settled both ways and two are still in flight.
C2_Witness ==
    /\ activeJobsCount = 2
    /\ \E i, k \in Positions :
         jobs[i].status = "success" /\ jobs[k].status = "error" /\ jobs[k].file

\* C3: a run of the scheduler with k queued jobs and s free slots moves exactly
\* min(k, s) jobs from `queued` to `processing`.
C3_AdmitsMin ==
    [][Scheduler =>
         Cardinality({i \in Positions :
                        jobs[i].status = "queued" /\ jobs'[i].status = "processing"})
           = Min(QueuedCount, availableSlots)]_vars

\* C4: when a run of the scheduler moves a job from `queued` to `processing`, no
\* job earlier in the collection is `queued` after the run.
C4_QueueOrder ==
    [][Scheduler =>
         \A i, k \in Positions :
            (i < k /\ jobs[k].status = "queued" /\ jobs'[k].status = "processing")
               => jobs'[i].status # "queued"]_vars

\* C5: at no time are two pipelines in flight for one job: the pipelines in
\* flight for an id of the collection never outnumber the jobs that carry it.
C5_OnePipelinePerJob ==
    \A id \in JobIds(jobs) : PipelinesFor(id) <= JobsWith(id)

\* C6 as claimed: an operation that updates jobs changes a status only along
\* queued -> processing, processing -> success, processing -> error and
\* error -> queued.
ClaimedEdges ==
    {<<"queued", "processing">>, <<"processing", "success">>,
     <<"processing", "error">>, <<"error", "queued">>}

StatusEdgeAllowed(from, to) ==
    /\ to = "queued" => from = "error"
    /\ to = "processing" => from = "queued"
    /\ from = "processing" => to \in {"success", "error"}
    /\ from = "success" => to = "error"

RetriedAt(i) ==
    /\ canRetry(jobs[i])
    /\ jobs'[i].status = "queued"
    /\ jobs'[i].errorMessage = Unset
    /\ jobs'[i].extractedSheets = SheetsUnset

C8_Retry ==
    [][/\ \A i \in Positions :
            handleRetry(i) =>
               /\ RetriedAt(i)
               /\ \A k \in Positions \ {i} : jobs'[k] = jobs[k]
       /\ \A selected \in SUBSET JobIds(jobs) :
            handleRetrySelected(selected) =>
               \A k \in Positions :
                  \/ jobs'[k] = jobs[k]
                  \/ jobs[k].id \in selected /\ RetriedAt(k)]_vars

\* C9: a reload leaves no job `queued` or `processing`: a job saved as either is
\* in `error` with the interruption message, no job holds a file or can be
\* retried, and activeJobsCount is 0.
C9_Reload ==
    [][Reload =>
         /\ activeJobsCount' = 0
         /\ Len(jobs') = Len(saved)
         /\ \A i \in 1..Len(saved) :
              /\ jobs'[i].status \in {"success", "error"}
              /\ saved[i].status \in {"queued", "processing"}
                    => /\ jobs'[i].status = "error"
                       /\ jobs'[i].errorMessage = MsgInterrupted
              /\ ~jobs'[i].file
              /\ ~canRetry(jobs'[i])]_vars

\* Restored jobs, one interrupted and one that had finished.
C9_Witness ==
    /\ activeJobsCount = 0
    /\ \E i, k \in Positions :
         /\ ~jobs[i].file /\ jobs[i].status = "error"
         /\ jobs[i].errorMessage = MsgInterrupted
         /\ ~jobs[k].file /\ jobs[k].status = "success"

\* C10: processJob called with a job that holds no file puts it in `error` with
\* the file-not-available message and changes neither activeJobsCount nor the
\* pipelines in flight.
C10_NoFileNoPipeline ==
    [][\A i \in Positions :
          processJobCalled(i) =>
             /\ jobs'[i].status = "error"
             /\ jobs'[i].errorMessage = MsgFileNotAvailable
             /\ activeJobsCount' = activeJobsCount
             /\ pipelines' = pipelines]_vars

\* A restored job after processJob was called with it.
C10_Witness ==
    \E i \in Positions :
       /\ ~jobs[i].file
       /\ jobs[i].status = "error"
       /\ jobs[i].errorMessage = MsgFileNotAvailable

\* A step of the pipeline p, and one in which p settles.
StepOf(p) ==
    getDocument(p) \/ renderPage(p) \/ extractionSettles(p) \/ readExcelSettles(p)

Settles(p) == pipelines' = pipelines (-) SetToBag({p}) /\ StepOf(p)

\* No job has become `queued` in the step.
NoneRequeued ==
    /\ Len(jobs') = Len(jobs)
    /\ \A i \in Positions :
          jobs'[i].status = "queued" => jobs[i].status = "queued"

\* C11: when a pipeline settles, every job of the collection that carries its
\* id is in `success`, or in `error` with an error message; and no step of the
\* scheduler or of a pipeline makes a job `queued`.
C11_SettledIsTerminal ==
    [][/\ \A p \in BagToSet(pipelines) :
            Settles(p) =>
               \A i \in Positions :
                  jobs[i].id = p.jobId =>
                     \/ jobs'[i].status = "success"
                     \/ jobs'[i].status = "error" /\ jobs'[i].errorMessage # Unset
       /\ NoneRequeued \/ ~(Scheduler \/ PipelineStep)]_vars

\* One pipeline has failed in the extraction and one has succeeded.
C11_Witness ==
    \E i, k \in Positions :
       /\ jobs[i].status = "error" /\ jobs[i].errorMessage = MsgNoTables
       /\ jobs[k].status = "success" /\ jobs[k].extractedSheets.is = "array"

\* C12: a job in `success` has its result sheets set and no error message.
C12_SuccessHasSheetsNoError ==
    \A i \in Positions :
       jobs[i].status = "success" =>
          /\ jobs[i].extractedSheets.is = "array"
          /\ jobs[i].errorMessage = Unset

C14_OnePipelinePerProcessing ==
    /\ \A i \in Positions :
          jobs[i].status = "processing" =>
             Cardinality({p \in BagToSet(pipelines) : p.jobId = jobs[i].id}) = 1
             /\ \A p \in BagToSet(pipelines) :
                   p.jobId = jobs[i].id => CopiesIn(p, pipelines) = 1
    /\ ProcessingCount <= activeJobsCount

\* A pipeline whose job is no longer in the collection.
Orphan(p) == p.jobId \notin JobIds(jobs)

\* The operations that remove jobs whatever their status.
RemovalStep ==
    \/ handleClearAll
    \/ \E mode \in ConversionModes : switchConversionMode(mode)
    \/ \E selected \in SUBSET JobIds(jobs) : handleDeleteSelected(selected)

\* C15: deleting the selected jobs, clearing all and switching the mode leave
\* the pipelines in flight and the counter as they are; every pipeline in
\* flight, its job removed or not, has a next step; a step of a pipeline whose
\* job was removed leaves `jobs` as it is, and when that pipeline settles the
\* counter goes down by one.
C15_OrphanPipeline ==
    /\ [](\A p \in BagToSet(pipelines) : ENABLED StepOf(p))
    /\ [][/\ (pipelines' = pipelines /\ activeJobsCount' = activeJobsCount)
             \/ ~RemovalStep
          /\ \A p \in BagToSet(pipelines) :
                \/ /\ jobs' = jobs
                   /\ pipelines' = pipelines (-) SetToBag({p}) =>
                         activeJobsCount' = activeJobsCount - 1
                \/ ~Orphan(p)
                \/ ~StepOf(p)]_vars

\* A job was removed while its pipeline had begun, another job is still being
\* processed, and the pipeline of the removed job is waiting for the model.
C15_Witness ==
    /\ \E i \in Positions : jobs[i].status = "processing"
    /\ \E p \in BagToSet(pipelines) :
          Orphan(p) /\ p.pc = "extractDataFromPdfImages"

\* The step keeps the collection's length and order, changes no job whose id
\* is outside ids, and changes at most the given fields of the others.
OnlyJobsOf(ids, fields) ==
    /\ Len(jobs') = Len(jobs)
    /\ \A i \in Positions :
          IF jobs[i].id \in ids
          THEN \A f \in (DOMAIN jobs[i]) \ fields : jobs'[i][f] = jobs[i][f]
          ELSE jobs'[i] = jobs[i]

\* After the step every job with an id of ids has the fields of the patch.
Applied(ids, patch) ==
    \A i \in Positions :
       jobs[i].id \in ids => \A f \in DOMAIN patch : jobs'[i][f] = patch[f]

\* C16: each update is applied to the jobs as they are when it arrives: a step
\* of a pipeline, the result of a thumbnail, a typed page range, a retry and
\* the scheduler each change only the jobs with the id they are addressed to,
\* and of those only their own fields, which then hold the update's values;
\* the fields written by the other updates stay.
C16_UpdatesById ==
    [][/\ \A p \in BagToSet(pipelines) :
            \/ OnlyJobsOf({p.jobId}, {"status", "progressMessage", "errorMessage",
                                      "extractedSheets"})
            \/ ~StepOf(p)
       /\ \A id \in BagToSet(thumbnails), result \in ThumbnailResults :
            \/ /\ OnlyJobsOf({id}, {"thumbnailUrls", "pdfPageCount"})
               /\ Applied({id}, WithThumbnail(result))
            \/ ~thumbnailSettles(id, result)
       /\ \A i \in Positions, range \in RangeTexts :
            \/ /\ OnlyJobsOf({jobs[i].id}, {"pageRange"})
               /\ Applied({jobs[i].id}, [pageRange |-> range])
            \/ ~handlePageRangeChange(i, range)
       /\ \A i \in Positions :
            \/ /\ OnlyJobsOf({jobs[i].id}, {"status", "errorMessage", "extractedSheets"})
               /\ Applied({jobs[i].id}, Requeued)
            \/ ~handleRetry(i)
       /\ \/ OnlyJobsOf(JobIds(jobsToStart), {"status", "progressMessage", "errorMessage"})
          \/ ~Scheduler]_vars

\* A job carries a typed page range, the result of its pipeline and its
\* thumbnail, while the thumbnail of another job is still being generated.
C16_Witness ==
    /\ thumbnails # EmptyBag
    /\ \E i \in Positions :
          /\ jobs[i].pageRange # <<>>
          /\ jobs[i].status = "success"
          /\ jobs[i].thumbnailUrls = "array"

\* The job at position i is still in the collection after the step.
Kept(i) == \E k \in 1..Len(jobs') : jobs'[k].id = jobs[i].id

C18_UniqueIds ==
    \A i, k \in Positions : jobs[i].id = jobs[k].id => i = k

C20_TerminalHasNoProgress ==
    \A i \in Positions :
       jobs[i].status \in {"success", "error"} =>
          jobs[i].progressMessage = ProgressUnset

----------------------------------------------------------------------------
(* parsePageRange (C21 .. C24) *)

\* parsePageRange has been called and has returned call.pages.
Parsed == call.fn = "parsePageRange" /\ call.made

\* The tokens of an expression, and what a well-formed token is: an integer
\* (decimal digits), or two integers with one dash between them; blanks
\* around the token and around a bound do not count.
Tokens(expr) == split(expr, ",")

AllDigits(t) == t # <<>> /\ \A i \in 1..Len(t) : IsDigit(t[i])

RECURSIVE Decimal(_)
Decimal(t) ==
    IF t = <<>> THEN 0
    ELSE 10 * Decimal(SubSeq(t, 1, Len(t) - 1)) + DigitValue(t[Len(t)])

Dashes(t) == {i \in 1..Len(t) : t[i] = "-"}

IsInteger(token) == AllDigits(trim(token))

IsRange(token) ==
    /\ Cardinality(Dashes(token)) = 1
    /\ LET d == CHOOSE i \in Dashes(token) : TRUE
       IN /\ AllDigits(trim(SubSeq(token, 1, d - 1)))
          /\ AllDigits(trim(SubSeq(token, d + 1, Len(token))))

WellFormed(token) == IsInteger(token) \/ IsRange(token)

\* The indices a well-formed token denotes.
Denoted(token) ==
    IF IsInteger(token) THEN {Decimal(trim(token))}
    ELSE LET d == CHOOSE i \in Dashes(token) : TRUE
             a == Decimal(trim(SubSeq(token, 1, d - 1)))
             b == Decimal(trim(SubSeq(token, d + 1, Len(token))))
         IN a..b

\* The indices of [1, maxValue] that the well-formed tokens of expr denote.
DenotedBy(expr, maxValue) ==
    {i \in 1..maxValue :
        \E k \in 1..Len(Tokens(expr)) :
           WellFormed(Tokens(expr)[k]) /\ i \in Denoted(Tokens(expr)[k])}

Blank(expr) == \A i \in 1..Len(expr) : expr[i] = " "

\* C21: the list parsePageRange returns holds only numbers of [1, maxValue]
\* and is strictly ascending (so it has no duplicates).
C21_WithinBoundsAscending ==
    Parsed =>
       /\ \A k \in 1..Len(call.pages) :
             call.pages[k] >= 1 /\ call.pages[k] <= call.maxPages
       /\ \A k \in 1..(Len(call.pages) - 1) : call.pages[k] < call.pages[k + 1]

\* "3,1" with maxValue 3 gives [1, 3].
C21_Witness ==
    /\ Parsed
    /\ call.rangeStr = <<"3", ",", "1">>
    /\ call.maxPages = 3
    /\ call.pages = <<1, 3>>

\* C22: for an empty or blank expression parsePageRange returns 1, 2, ...,
\* maxValue.
C22_BlankIsEverything ==
    (Parsed /\ Blank(call.rangeStr)) =>
       /\ Len(call.pages) = call.maxPages
       /\ \A k \in 1..call.maxPages : call.pages[k] = k

\* Two blanks with maxValue 3 give [1, 2, 3].
C22_Witness ==
    /\ Parsed
    /\ call.rangeStr = <<" ", " ">>
    /\ call.maxPages = 3
    /\ call.pages = <<1, 2, 3>>

\* C23: for an expression that is not blank and whose tokens are all
\* well-formed, parsePageRange returns exactly the indices of [1, maxValue]
\* that its tokens denote.
C23_WellFormedTokens ==
    (/\ Parsed
     /\ ~Blank(call.rangeStr)
     /\ \A k \in 1..Len(Tokens(call.rangeStr)) : WellFormed(Tokens(call.rangeStr)[k]))
    => /\ Range(call.pages) = DenotedBy(call.rangeStr, call.maxPages)
       /\ Len(call.pages) = Cardinality(DenotedBy(call.rangeStr, call.maxPages))

\* "3-1" gives nothing, without an error.
C23_Witness ==
    /\ Parsed
    /\ call.rangeStr = <<"3", "-", "1">>
    /\ call.maxPages = 3
    /\ call.pages = <<>>

\* C24: for an expression that is not blank, parsePageRange returns only the
\* indices that its well-formed tokens denote: a token that is not
\* well-formed adds nothing.
C24_MalformedAddsNothing ==
    (Parsed /\ ~Blank(call.rangeStr)) =>
       Range(call.pages) = DenotedBy(call.rangeStr, call.maxPages)

----------------------------------------------------------------------------
(* extractDataFromPdfImages (C25) *)

\* The model has answered and the pipeline of the job has settled.
Answered == call.fn = "extractDataFromPdfImages" /\ pipelines = EmptyBag

\* A sheet with a non-empty header row and at least one data row.
HeaderAndRow(sheet) ==
    /\ "data" \in DOMAIN sheet
    /\ Len(sheet.data) >= 2
    /\ Len(sheet.data[1]) >= 1

\* C25: when the model has answered, the job is in `error` with a message, or
\* in `success` with a non-empty list of sheets that all have a non-empty
\* header row and a data row and that are the sheets of the answer which have
\* them, in order; an answer with no sheet gives `error` with the message
\* that no tables were detected, an answer whose sheets all lack a header
\* or a data row gives `error` with the message of its own.
C25_ExtractionOutcome ==
    Answered =>
       LET job == jobs[1]
           response == call.response
       IN /\ \/ job.status = "error" /\ job.errorMessage # Unset
             \/ /\ job.status = "success"
                /\ response.kind = "json"
                /\ job.extractedSheets.is = "array"
                /\ Len(job.extractedSheets.sheets) > 0
                /\ job.extractedSheets.sheets =
                      convertRawSheetsToRich(SelectSeq(response.sheets, HeaderAndRow))
                /\ \A k \in 1..Len(job.extractedSheets.sheets) :
                      /\ Len(job.extractedSheets.sheets[k].data) >= 2
                      /\ Len(job.extractedSheets.sheets[k].data[1]) >= 1
          /\ (response.kind = "json" /\ Len(response.sheets) = 0) =>
                job.status = "error" /\ job.errorMessage = MsgNoTables
          /\ (/\ response.kind = "json"
              /\ Len(response.sheets) > 0
              /\ \A k \in 1..Len(response.sheets) : ~HeaderAndRow(response.sheets[k])) =>
                job.status = "error" /\ job.errorMessage = MsgOnlyHeaders

\* The model answered with a sheet of headers only, a table and a sheet
\* without data, and the job holds the table alone.
C25_Witness ==
    /\ Answered
    /\ call.response.kind = "json"
    /\ call.response.sheets = <<RawHeaderOnly, RawTable, RawNoData>>
    /\ jobs[1].status = "success"
    /\ Len(jobs[1].extractedSheets.sheets) = 1

----------------------------------------------------------------------------
(* The empty selection of pages (C26) *)

\* C26: no pipeline waits for the extraction with no page image, that is, the
\* extraction is not called when the page range of the job selects no page
\* of the document.
C26_NoExtractionWithoutPages ==
    \A p \in BagToSet(pipelines) :
       p.pc = "extractDataFromPdfImages" => p.n > 0

----------------------------------------------------------------------------
(* The download of an Excel job (C27) *)

\* The positions of the sheets that the range of the job selects.
PositionsSelected(job) ==
    {k \in 1..Len(job.extractedSheets.sheets) :
        k \in Range(parsePageRange(job.pageRange, Len(job.extractedSheets.sheets)))}

\* doc holds one page per selected sheet of the job, in the order of the sheets.
EncodesSelection(doc, job) ==
    /\ Len(doc) = Cardinality(PositionsSelected(job))
    /\ \A k \in 1..Len(doc) :
          \E x \in PositionsSelected(job) :
             /\ Cardinality({y \in PositionsSelected(job) : y < x}) = k - 1
             /\ doc[k] = pdfPage(job.extractedSheets.sheets[x])

\* The download of the job at position i has ended as claimed: one document of
\* the selected sheets, or no file and the job failed with the selection error.
DownloadedAsClaimed(i) ==
    LET files == SelectSeq(call'.files, LAMBDA f : f.jobId = jobs[i].id)
    IN IF PositionsSelected(jobs[i]) # {}
       THEN /\ Len(files) = 1
            /\ EncodesSelection(files[1].doc, jobs[i])
       ELSE /\ Len(files) = 0
            /\ jobs'[i].status = "error"
            /\ jobs'[i].errorMessage = MsgNoSheetsMatch

\* C27: a download of an Excel job, by its own button or by the button of the
\* selection, encodes exactly the sheets that the range of the job selects, in
\* their order, and when the range selects no sheet it encodes nothing and
\* fails with the selection error.
C27_DownloadEncodesSelection ==
    [][/\ \A i \in 1..Len(jobs) : handleDownloadFiles(i) => DownloadedAsClaimed(i)
       /\ \A selected \in SUBSET JobIds(jobs) :
             handleDownloadSelected(selected) =>
                \A i \in 1..Len(jobs) :
                   (jobs[i].id \in selected /\ jobs[i].status = "success")
                      => DownloadedAsClaimed(i)]_vars

----------------------------------------------------------------------------
(* The draft of the viewer (C28 .. C30) *)

StyleFields == {"bold", "italic", "underline", "strikethrough", "color", "align"}

\* What reading a field of a style gives: <<v>> for the value v, <<>> for
\* undefined (the field is missing or was set to undefined).
ReadField(style, f) ==
    IF f \in DOMAIN style /\ ~(f = "color" /\ style[f] = Undefined)
    THEN <<style[f]>>
    ELSE <<>>

SameCell(a, b) ==
    /\ a.value = b.value
    /\ \A f \in StyleFields : ReadField(a.style, f) = ReadField(b.style, f)

\* The positions <<sheet, row, col>> of the cells of sheets, counted from 0.
CellsOf(sheets) ==
    {p \in (0..(MaxSheets - 1)) \X (0..1) \X (0..1) : HasCell(sheets, p[1], p[2], p[3])}

CellAt(sheets, p) == sheets[p[1] + 1].data[p[2] + 1][p[3] + 1]

\* The two drafts have the same sheets by name and the same cells by position.
SameShape(before, after) ==
    /\ Len(after) = Len(before)
    /\ \A k \in 1..Len(before) :
          /\ after[k].sheetName = before[k].sheetName
          /\ Len(after[k].data) = Len(before[k].data)
          /\ \A r \in 1..Len(before[k].data) :
                Len(after[k].data[r]) = Len(before[k].data[r])

\* The draft after the step is the draft before it with the patch on the cells
\* of the rectangle.
Patched(sheetIndex, selection, style) ==
    /\ SameShape(editedData.sheets, editedData'.sheets)
    /\ \A p \in CellsOf(editedData.sheets) :
          IF p[1] = sheetIndex /\ <<p[2], p[3]>> \in Visited(selection)
          THEN /\ CellAt(editedData'.sheets, p).value = CellAt(editedData.sheets, p).value
               /\ \A f \in StyleFields :
                     ReadField(CellAt(editedData'.sheets, p).style, f) =
                        IF f \in DOMAIN style
                        THEN ReadField(style, f)
                        ELSE ReadField(CellAt(editedData.sheets, p).style, f)
          ELSE SameCell(CellAt(editedData'.sheets, p), CellAt(editedData.sheets, p))

\* C28: handleStyleChange with a selection puts the fields of the patch on
\* every cell of the rectangle and leaves the other fields of these cells,
\* every value and every other cell of every sheet as they were; without a
\* selection it changes nothing.
C28_StylePatch ==
    [][\A sheetIndex \in 0..(MaxSheets - 1), style \in StylePatches :
          \A selection \in Selections(editedData.sheets, sheetIndex) :
             (Editable /\ handleStyleChange(sheetIndex, selection, style)) =>
                IF selection.is = "null"
                THEN editedData' = editedData
                ELSE Patched(sheetIndex, selection, style)]_vars

\* C29: handleCellChange on a cell of the draft replaces the value of that
\* cell and nothing else: the style of the cell, every other cell of every
\* sheet, the names of the sheets and the lengths of the rows stay.
C29_CellValueOnly ==
    [][\A sheetIndex \in 0..(MaxSheets - 1), rowIndex \in 0..1, cellIndex \in 0..1 :
          \A value \in TypedValues :
             (Editable /\ handleCellChange(sheetIndex, rowIndex, cellIndex, value)) =>
                /\ editedData'.is = "array"
                /\ SameShape(editedData.sheets, editedData'.sheets)
                /\ \A p \in CellsOf(editedData.sheets) :
                      IF p = <<sheetIndex, rowIndex, cellIndex>>
                      THEN SameCell(CellAt(editedData'.sheets, p),
                                    [CellAt(editedData.sheets, p) EXCEPT !.value = value])
                      ELSE SameCell(CellAt(editedData'.sheets, p),
                                    CellAt(editedData.sheets, p))]_vars

\* The cell in color of the second sheet has been typed over, beside an
\* untouched sheet.
C29_Witness ==
    /\ editedData.is = "array" /\ Len(editedData.sheets) = 2
    /\ call.made = 1 /\ ~call.threw
    /\ editedData.sheets[2].data[2][1] = Cell("x", [color |-> "#EF4444"])
    /\ editedData.sheets[1] = RaggedSheet

\* The result sheets of the job that is viewed, in `jobs`.
Committed == find(jobs, currentlyViewing[1].id).extractedSheets

\* C30: no call of handleCellChange or handleStyleChange changes the jobs or
\* the snapshot; they change by Save only, which makes the result sheets of
\* the job that is viewed equal to the draft and leaves the other jobs.
C30_DraftUntilSave ==
    [][(jobs' = jobs /\ saved' = saved)
       \/ /\ handleSaveChanges
          /\ Len(jobs') = Len(jobs)
          /\ \A i \in 1..Len(jobs) :
                IF jobs[i].id = currentlyViewing[1].id
                THEN jobs'[i] = [jobs[i] EXCEPT !.extractedSheets = editedData]
                ELSE jobs'[i] = jobs[i]
          /\ saved' = savableJobs(jobs')]_vars

\* Two edits were made on the draft of a job, and the job still holds the
\* sheets of its conversion.
C30_Witness ==
    /\ currentlyViewing # NotViewing
    /\ isEditingData
    /\ call.made = 2 /\ ~call.threw
    /\ editedData # Committed
    /\ Committed \in {SheetsArray(sheets) : sheets \in EditorSheetLists}

----------------------------------------------------------------------------
(* The table of the viewer (C31, C34, C35, C38) *)

\* Every position of the selection holds a cell of the active sheet.
SelectionHoldsCells ==
    \A rc \in Visited(table.selection) :
        HasCell(editedData.sheets, table.activeSheetIndex, rc[1], rc[2])

\* C31: every call of handleCellChange by the table names a cell of the sheet,
\* and every position of a rectangle that the table passes to
\* handleStyleChange holds a cell of the sheet, whatever the lengths of the
\* rows.
C31_EditsAddressCells ==
    [][/\ \A value \in TypedValues :
             onCellChange(value) =>
                HasCell(editedData.sheets, table.activeSheetIndex,
                        table.activeCell.rowIndex, table.activeCell.cellIndex)
       /\ \A style \in StylePatches :
             (InputShown /\ table.selection.is = "rectangle" /\ onStyleChange(style))
                => SelectionHoldsCells]_vars

\* The selection is null or a rectangle whose start is not after its end.
SelectionNormalized ==
    table.selection.is = "rectangle" =>
       /\ table.selection.start.row <= table.selection.end.row
       /\ table.selection.start.col <= table.selection.end.col

\* The rectangle between the anchor and the cell (rowIndex, cellIndex).
Spanning(rowIndex, cellIndex) ==
    LET a == table.activeCell
    IN [is |-> "rectangle",
        start |-> [row |-> IF a.rowIndex <= rowIndex THEN a.rowIndex ELSE rowIndex,
                   col |-> IF a.cellIndex <= cellIndex THEN a.cellIndex ELSE cellIndex],
        end |-> [row |-> IF a.rowIndex <= rowIndex THEN rowIndex ELSE a.rowIndex,
                 col |-> IF a.cellIndex <= cellIndex THEN cellIndex ELSE a.cellIndex]]

\* C34: the selection is null or a rectangle with start <= end on both axes;
\* a plain click on a cell makes it the anchor and the only cell selected, and
\* a shift-click with an anchor selects the rectangle between the anchor and
\* the cell and leaves the anchor.
C34_SelectionRectangle ==
    /\ []SelectionNormalized
    /\ [][\A shiftKey \in BOOLEAN, rowIndex \in 0..1, cellIndex \in 0..1 :
             handleCellClick(shiftKey, rowIndex, cellIndex) =>
                IF shiftKey /\ table.activeCell.is = "cell"
                THEN /\ table'.activeCell = table.activeCell
                     /\ table'.selection = Spanning(rowIndex, cellIndex)
                ELSE /\ table'.activeCell =
                           [is |-> "cell", sheetIndex |-> table.activeSheetIndex,
                            rowIndex |-> rowIndex, cellIndex |-> cellIndex]
                     /\ table'.selection =
                           [is |-> "rectangle",
                            start |-> [row |-> rowIndex, col |-> cellIndex],
                            end |-> [row |-> rowIndex, col |-> cellIndex]]]_vars

\* The anchor is the last cell of a table and the selection spans the table:
\* the shift-click was above and left of the anchor.
C34_Witness ==
    /\ table.activeCell.is = "cell"
    /\ table.activeCell.rowIndex = 1 /\ table.activeCell.cellIndex = 1
    /\ table.selection = Rectangle(0, 0, 1, 1)

\* The position (rowIndex, cellIndex) lies in the grid of the active sheet.
InGrid(rowIndex, cellIndex) ==
    /\ rowIndex \in 0..(totalRows - 1)
    /\ cellIndex \in 0..(totalCols - 1)

\* The position a key leads to from a position inside the grid: the arrows
\* stop at the edges, Tab goes right and wraps to the next row, Shift+Tab goes
\* left and wraps to the previous row, and neither leaves the grid.
Navigated(key, shiftKey, rowIndex, cellIndex) ==
    CASE key = "ArrowUp" -> <<IF rowIndex = 0 THEN 0 ELSE rowIndex - 1, cellIndex>>
      [] key = "ArrowDown" ->
            <<IF rowIndex = totalRows - 1 THEN rowIndex ELSE rowIndex + 1, cellIndex>>
      [] key = "ArrowLeft" -> <<rowIndex, IF cellIndex = 0 THEN 0 ELSE cellIndex - 1>>
      [] key = "ArrowRight" ->
            <<rowIndex, IF cellIndex = totalCols - 1 THEN cellIndex ELSE cellIndex + 1>>
      [] key = "Tab" /\ ~shiftKey ->
            IF cellIndex # totalCols - 1 THEN <<rowIndex, cellIndex + 1>>
            ELSE IF rowIndex # totalRows - 1 THEN <<rowIndex + 1, 0>>
            ELSE <<rowIndex, cellIndex>>
      [] key = "Tab" /\ shiftKey ->
            IF cellIndex # 0 THEN <<rowIndex, cellIndex - 1>>
            ELSE IF rowIndex # 0 THEN <<rowIndex - 1, totalCols - 1>>
            ELSE <<rowIndex, cellIndex>>
      [] OTHER -> <<rowIndex, cellIndex>>

\* C35: a key pressed in a cell inside the grid leads to a position inside the
\* grid: the arrows clamp at the edges, Tab moves right and wraps to column 0
\* of the next row and does nothing at the last cell of the last row, Shift+Tab
\* mirrors it and does nothing at (0, 0); when the position changes the anchor
\* moves there and the selection becomes that one cell, otherwise neither
\* changes.
C35_KeysStayInGrid ==
    [][\A key \in Keys, shiftKey \in BOOLEAN :
          (/\ handleKeyDown(key, shiftKey)
           /\ InGrid(table.activeCell.rowIndex, table.activeCell.cellIndex)) =>
             LET rowIndex == table.activeCell.rowIndex
                 cellIndex == table.activeCell.cellIndex
                 to == Navigated(key, shiftKey, rowIndex, cellIndex)
             IN /\ InGrid(to[1], to[2])
                /\ IF to = <<rowIndex, cellIndex>>
                   THEN table' = table
                   ELSE /\ table'.activeSheetIndex = table.activeSheetIndex
                        /\ table'.activeCell =
                              [is |-> "cell", sheetIndex |-> table.activeSheetIndex,
                               rowIndex |-> to[1], cellIndex |-> to[2]]
                        /\ table'.selection =
                              [is |-> "rectangle",
                               start |-> [row |-> to[1], col |-> to[2]],
                               end |-> [row |-> to[1], col |-> to[2]]]]_vars

\* The anchor stands in the last row and the last column of the grid, at a
\* position where the row has no cell: only the keys lead there.
C35_Witness ==
    /\ table.activeCell.is = "cell"
    /\ table.activeCell.rowIndex = totalRows - 1
    /\ table.activeCell.cellIndex = totalCols - 1
    /\ table.selection = Rectangle(totalRows - 1, totalCols - 1,
                                   totalRows - 1, totalCols - 1)
    /\ ~HasCell(editedData.sheets, table.activeSheetIndex,
                table.activeCell.rowIndex, table.activeCell.cellIndex)

\* The selection was made on the sheet that is shown: the anchor that came
\* with it is a cell of the active sheet.
SelectionOnActiveSheet ==
    table.selection.is = "rectangle" =>
       /\ table.activeCell.is = "cell"
       /\ table.activeCell.sheetIndex = table.activeSheetIndex

\* C38: a change of the active sheet sets the anchor and the selection to
\* null, so the selection that the toolbar passes was made on the active
\* sheet, and a style patch changes no other sheet of the draft.
C38_SheetChangeResets ==
    /\ []SelectionOnActiveSheet
    /\ [][/\ \A index \in 0..(MaxSheets - 1) :
                (index # table.activeSheetIndex /\ setActiveSheetIndex(index)) =>
                   /\ table'.activeSheetIndex = index
                   /\ table'.activeCell = [is |-> "null"]
                   /\ table'.selection = [is |-> "null"]
          /\ \A style \in StylePatches :
                (InputShown /\ onStyleChange(style) /\ ~call'.threw) =>
                   /\ SameShape(editedData.sheets, editedData'.sheets)
                   /\ \A p \in CellsOf(editedData.sheets) :
                         p[1] # table.activeCell.sheetIndex =>
                            SameCell(CellAt(editedData'.sheets, p),
                                     CellAt(editedData.sheets, p))]_vars

\* The second sheet of the draft was edited, the first sheet is shown again
\* and nothing is selected on it.
C38_Witness ==
    /\ currentlyViewing # NotViewing
    /\ isEditingData
    /\ table = [activeSheetIndex |-> 0, activeCell |-> [is |-> "null"],
                selection |-> [is |-> "null"]]
    /\ editedData.is = "array" /\ Len(editedData.sheets) = 2
    /\ editedData.sheets[1] = Committed.sheets[1]
    /\ editedData.sheets[2] # Committed.sheets[2]

----------------------------------------------------------------------------
(* The Cancel button of the viewer (C36) *)

\* C36: Cancel ends the edit session and discards its edits: after Cancel the
\* draft equals the result sheets of the job that is viewed.
C36_CancelDiscards ==
    [][setIsEditingData(FALSE) => editedData' = Committed]_vars

----------------------------------------------------------------------------
(* The conversion mode of the jobs (C40) *)

\* C40: in every reachable state, the state after a reload included, every
\* job of the list has the conversion mode that is active.
C40_JobsInActiveMode ==
    \A i \in 1..Len(jobs) : jobs[i].conversionMode = conversionMode

----------------------------------------------------------------------------
(* The list: its check boxes and its pages (C32, C33, C39) *)

\* C32: "Select all on page" on a page that shows jobs adds the id of every
\* job of the page to the selection when not all of them are selected, and
\* removes exactly these ids when all of them are; the ids of jobs that are
\* not on the page stay as they were.
C32_SelectAllOnPage ==
    (selectionBar /\ Len(paginatedJobs) > 0) =>
       LET visible == {paginatedJobs[k].id : k \in 1..Len(paginatedJobs)}
       IN toggledSelectAll = IF visible \subseteq selectedJobIds
                             THEN selectedJobIds \ visible
                             ELSE selectedJobIds \cup visible

\* Ids that the reconciliation is asked about in every state: of the first
\* jobs, of the last job and of a job that never was in the list.
ProbedIds == {1, 2, MaxListed, MaxListed + 1}

\* C33: once a change of `jobs` has settled, the selection holds ids of jobs
\* of the list only; the reconciliation takes out of a selection exactly the
\* ids that no job has and keeps the others.
C33_SelectionOfExistingJobs ==
    /\ \A id \in selectedJobIds : \E i \in 1..Len(jobs) : jobs[i].id = id
    /\ \A selected \in SUBSET ProbedIds :
          reconcileSelection(selected, jobs) =
             {id \in selected : \E i \in 1..Len(jobs) : jobs[i].id = id}

\* Jobs were deleted, the first job among them, and a job that is left is
\* selected.
C33_Witness ==
    /\ selectedJobIds # {}
    /\ Len(jobs) > 0
    /\ \A i \in 1..Len(jobs) : jobs[i].id # 1

\* The page shows a job, or it is the first page.
PageSettled == currentPage = 1 \/ Len(paginatedJobs) > 0

\* C39: currentPage is at least 1; once the effects that follow a deletion, a
\* clear, a search or a page change have run, the page shows a job or is
\* page 1; a change of the search text leads to page 1.
C39_PageSettles ==
    /\ [](currentPage >= 1 /\ PageSettled)
    /\ [][searchQuery' # searchQuery => currentPage' = 1]_vars

\* The search keeps the files with an odd identity, the last of them, which
\* was alone on the second page, is deleted, and the first page is shown.
C39_Witness ==
    /\ searchQuery = <<"B">>
    /\ Len(jobs) = MaxListed - 1
    /\ \A i \in 1..Len(jobs) : jobs[i].id # MaxListed
    /\ currentPage = 1
    /\ totalPages = 1

----------------------------------------------------------------------------
(* The admission of the jobs (C37) *)

\* The job with the id jobId waits: it is queued and has its file.
Waits(jobId) ==
    \E i \in 1..Len(jobs) :
        jobs[i].id = jobId /\ jobs[i].status = "queued" /\ jobs[i].file

\* The job with the id jobId was started, or it was removed.
StartedOrRemoved(jobId) ==
    \A i \in 1..Len(jobs) : jobs[i].id = jobId => jobs[i].status = "processing"

\* C37: when the scheduler effect runs whenever it is due and every pipeline
\* in flight settles, every job that is queued with its file and is not
\* removed from the list is eventually processing; and in no state is there a
\* free slot and a queued job without a run of the scheduler being due.
C37_QueuedEventuallyProcessing ==
    /\ [](availableSlots > 0 /\ (\E i \in 1..Len(jobs) : jobs[i].status = "queued")
             => ENABLED Scheduler)
    /\ \A jobId \in 1..MaxAdmitted : Waits(jobId) ~> StartedOrRemoved(jobId)

====
